---- MODULE Spec2Model ----
(***************************************************************************)
(* Model of santa-lang: the floorplan compiler (translate/elf.rs), the     *)
(* pipes (runtime/pipe.rs) and the parts of the runtime they are used by.  *)
(*                                                                         *)
(* Indices are 0-based as in the Rust source; a TLA+ sequence s holds the  *)
(* Rust element s[i] at s[i + 1].                                          *)
(***************************************************************************)
EXTENDS Integers, Sequences, FiniteSets, TLC

(***************************************************************************)
(* Bounds of the model.                                                    *)
(***************************************************************************)
\* a checked floorplan differs from a base plan in at most MaxEdits tiles
MaxEdits == 1
\* length of the initial stack of the elf that runs a compiled plan
MaxStack == 2
\* number of step_elf calls followed when a compiled plan is run
MaxRunSteps == 10
\* number of elves set up when the pipes are exercised
MaxElves == 2
\* number of director and elf steps that touch a pipe
MaxPipeOps == 4
\* number of director and elf steps followed on two connected elves
MaxWiredOps == 6

\* usize::MAX, the value 0usize.wrapping_sub(1) yields for a coordinate of a
\* floorplan.  TLC's integers are 32 bits wide, so the 64-bit value is
\* represented by the largest of them; the code only ever compares it with
\* the width and height of a plan.
UsizeMax == 2147483647

(***************************************************************************)
(* parse::Direction                                                        *)
(***************************************************************************)
Direction == {"Right", "Down", "Left", "Up"}

left(d) ==
    CASE d = "Up" -> "Left"
      [] d = "Left" -> "Down"
      [] d = "Down" -> "Right"
      [] d = "Right" -> "Up"

right(d) ==
    CASE d = "Up" -> "Right"
      [] d = "Right" -> "Down"
      [] d = "Down" -> "Left"
      [] d = "Left" -> "Up"

(***************************************************************************)
(* ir::Instr.  One record shape for every variant: op is the variant, f    *)
(* the Op of Arith / ArithC ("-" otherwise), a the integer payload.        *)
(***************************************************************************)
MkInstr(op, f, a) == [op |-> op, f |-> f, a |-> a]
Nop == MkInstr("Nop", "-", 0)
Push(v) == MkInstr("Push", "-", v)
Dup(k) == MkInstr("Dup", "-", k)
Erase(k) == MkInstr("Erase", "-", k)
Tuck(k) == MkInstr("Tuck", "-", k)
Swap(k) == MkInstr("Swap", "-", k)
JmpPtr(t) == MkInstr("JmpPtr", "-", t)
IfPosPtr(t) == MkInstr("IfPosPtr", "-", t)
IfNzPtr(t) == MkInstr("IfNzPtr", "-", t)
IfEmptyPtr(t) == MkInstr("IfEmptyPtr", "-", t)
Arith(f) == MkInstr("Arith", f, 0)
ArithC(f, c) == MkInstr("ArithC", f, c)
StackLen == MkInstr("StackLen", "-", 0)
Hammock == MkInstr("Hammock", "-", 0)

(***************************************************************************)
(* parse::Tile as translate_plan matches on it.  k is the kind, d the      *)
(* direction of Move / Elf, i the instruction of Instr.                    *)
(***************************************************************************)
MkTile(k, d, i) == [k |-> k, d |-> d, i |-> i]
TEmpty == MkTile("Empty", "-", Nop)
TMove(d) == MkTile("Move", d, Nop)
TElf(d) == MkTile("Elf", d, Nop)
TIsZero == MkTile("IsZero", "-", Nop)
TIsNeg == MkTile("IsNeg", "-", Nop)
TIsPos == MkTile("IsPos", "-", Nop)
TInstr(i) == MkTile("Instr", "-", i)
TUnknown == MkTile("Unknown", "-", Nop)

(***************************************************************************)
(* translate::elf::ElfState                                                *)
(***************************************************************************)
ElfState_new(x, y, dir) == [x |-> x, y |-> y, dir |-> dir]

\* mutant of wrapping_dec: saturating_sub, the elf stays on the edge tile
wrapping_dec_saturating(a) == IF a = 0 THEN 0 ELSE a - 1

\* usize::wrapping_sub(a, 1)
wrapping_dec(a) == IF a = 0 THEN UsizeMax ELSE a - 1

step_fwd(self) ==
    CASE self.dir = "Up" -> [self EXCEPT !.y = wrapping_dec(self.y)]
      [] self.dir = "Down" -> [self EXCEPT !.y = self.y + 1]
      [] self.dir = "Left" -> [self EXCEPT !.x = wrapping_dec(self.x)]
      [] self.dir = "Right" -> [self EXCEPT !.x = self.x + 1]

with_dir(self, dir) == [x |-> self.x, y |-> self.y, dir |-> dir]

\* Turn left, then move forward.
step_left(self) == step_fwd([self EXCEPT !.dir = left(self.dir)])

\* Turn right, then move forward.
step_right(self) == step_fwd([self EXCEPT !.dir = right(self.dir)])

(***************************************************************************)
(* Floorplans: (w, h, tiles), tiles row-major, tile (x, y) at x + y * w.   *)
(***************************************************************************)
MkPlan(w, h, tiles) == [w |-> w, h |-> h, tiles |-> tiles]

tile_at(p, x, y) == p.tiles[x + y * p.w + 1]

\* translate/elf.rs, test::translate_simple; compiles to [Push(1), Hammock]
PlanSimple ==
    MkPlan(4, 2,
        << TElf("Right"), TInstr(Push(1)), TEmpty, TMove("Down"),
           TInstr(Hammock), TEmpty, TEmpty, TMove("Left") >>)

\* translate/elf.rs, test::translate_ifz;
\* compiles to [IfNzPtr(3), Push(1), Hammock, Push(2), JmpPtr(2)]
PlanIfz ==
    MkPlan(5, 3,
        << TEmpty, TMove("Right"), TInstr(Push(2)), TMove("Down"), TEmpty,
           TElf("Right"), TIsZero, TEmpty, TMove("Right"), TInstr(Hammock),
           TEmpty, TMove("Right"), TInstr(Push(1)), TMove("Up"), TEmpty >>)

\* a trajectory that loops through Move tiles and never reaches a Hammock
PlanMoveLoop ==
    MkPlan(3, 2,
        << TElf("Right"), TMove("Right"), TMove("Down"),
           TEmpty, TMove("Up"), TMove("Left") >>)

\* a branching tile that the elf reaches a second time from the opposite
\* side, so that both of its exits are visited before a deferred one is popped
PlanRevisit ==
    MkPlan(3, 3,
        << TEmpty, TMove("Right"), TMove("Down"),
           TElf("Right"), TIsPos, TMove("Left"),
           TEmpty, TInstr(Hammock), TEmpty >>)

BasePlans == {PlanSimple, PlanIfz, PlanMoveLoop, PlanRevisit}

\* the tiles an edit may put on a plan
TileAlphabet ==
    {TEmpty, TIsZero, TIsNeg, TIsPos, TUnknown,
     TInstr(Push(1)), TInstr(Dup(0)), TInstr(Hammock)}
    \cup {TMove(d) : d \in Direction}
    \cup {TElf(d) : d \in Direction}

\* an edit list puts tile ed[j][2] on cell ed[j][1] (1-based), for j = 1, 2, ...
EditLists(p) == [1..MaxEdits -> (1..Len(p.tiles)) \X TileAlphabet]

RECURSIVE apply_edits(_, _, _)
apply_edits(tiles, ed, j) ==
    IF j > Len(ed) THEN tiles
    ELSE apply_edits([tiles EXCEPT ![ed[j][1]] = ed[j][2]], ed, j + 1)

\* a base plan with at most MaxEdits tiles replaced
Edited(p, ed) == [p EXCEPT !.tiles = apply_edits(p.tiles, ed, 1)]

\* the stacks an elf may start a compiled plan with
StackVals == {-1, 0, 1}
InitStacks == UNION {[1..n -> StackVals] : n \in 0..MaxStack}

(***************************************************************************)
(* State                                                                   *)
(***************************************************************************)
VARIABLES
    plan,       \* translate_plan: the (w, h, tiles) argument
    pc,         \* translate_plan: "start", "loop", "done", "panic"; then "run"
    emit,       \* translate_plan: emitted code
    visited,    \* translate_plan: ElfState -> instruction index
    bfs,        \* translate_plan: worklist of (ElfState, Option<usize>)
    errors,     \* translate_plan: the diagnostics pushed to `errors`
    result,     \* translate_plan: "-" while running, then "None" or "Some"
    iterlog,    \* history: what each iteration of the while loop did
    fromTile,   \* history: fromTile[i + 1] iff emit[i] was copied from an Instr tile
    lin,        \* the elf that runs the emitted program: [ip, stack, status]
    walk,       \* the elf that walks the floorplan: [elf, stack, status]
    sync,       \* the last point at which the two elves were compared
    steps,      \* step_elf calls made so far
    rt,         \* Runtime: the elves, the out-files and the pipes they hold
    hist,       \* history: what was written to and read from every pipe
    ops,        \* pipe operations made so far
    unit,       \* Runtime::unit: [rooms, santa], the programs that are run
    run,        \* Runtime: the director and the schedule; the call of run in progress
    log,        \* history: one entry per iteration of the loop of Runtime::run
    calllog,    \* history: one entry per call of Runtime::run made as a whole
    link,       \* translate: the linker's scode, identifiers and errors
    lmap        \* LineMap: the source, its newlines and the last Loc computed

planVars == <<plan, pc, emit, visited, bfs, errors, result, iterlog, fromTile>>
runVars == <<lin, walk, sync, steps>>
pipeVars == <<rt, hist, ops>>
schedVars == <<unit, run, log, calllog>>
linkVars == <<link, lmap>>
vars == <<planVars, runVars, pipeVars, schedVars, linkVars>>

(***************************************************************************)
(* translate::elf::translate_plan                                          *)
(***************************************************************************)
None == <<>>
Some(v) == <<v>>

MkError(code, x, y) == [code |-> code, x |-> x, y |-> y]
MissingElfStart == MkError("MissingElfStart", 0, 0)
MultipleElfStarts == MkError("MultipleElfStarts", 0, 0)
UnknownTile == MkError("UnknownTile", 0, 0)
ElfWallHit(x, y) == MkError("ElfWallHit", x, y)

\* xy(w, h): the coordinates of cell i (0-based) in scan order
xy(w, i) == [x |-> i % w, y |-> i \div w]

\* elf_starts: the ElfStart tiles in scan order, as ElfStates
RECURSIVE elf_starts_from(_, _)
elf_starts_from(p, i) ==
    IF i >= p.w * p.h THEN <<>>
    ELSE LET c == xy(p.w, i)
             t == p.tiles[c.x + c.y * p.w + 1]
             here == IF t.k = "Elf" THEN <<ElfState_new(c.x, c.y, t.d)>> ELSE <<>>
         IN  here \o elf_starts_from(p, i + 1)

\* mutant of elf_starts: the scan stops at the first ElfStart tile
elf_starts_first_only(p) ==
    LET s == elf_starts_from(p, 0) IN IF s = <<>> THEN s ELSE <<s[1]>>

elf_starts(p) == elf_starts_from(p, 0)

\* VecDeque::pop_back / push_back on the worklist
bfs_back(q) == q[Len(q)]
bfs_pop_back(q) == SubSeq(q, 1, Len(q) - 1)
bfs_entry(elf, from) == [elf |-> elf, from |-> from]

\* `elf.x < w && elf.y < h`
in_bounds(p, elf) == elf.x < p.w /\ elf.y < p.h

\* mutant of is_visited: the memo is never hit
is_visited_never(vis, elf) == FALSE

\* `visited.get(&elf)`
is_visited(vis, elf) == elf \in DOMAIN vis

\* mutant of visited_insert: the state is not recorded
visited_insert_lost(vis, elf, at) == vis

\* `visited.insert(elf, emit.len())`
visited_insert(vis, elf, at) == [s \in DOMAIN vis \cup {elf} |-> IF s = elf THEN at ELSE vis[s]]

\* mutant of patch_target: the target is one past the elf's first instruction
patch_target_off_by_one(code, from, emit_len) == [code EXCEPT ![from + 1].a = emit_len + 1]

\* lines 118-126: fill in the jump target of the instruction the elf came from
patch_is_jump(code, from) == code[from + 1].op \in {"JmpPtr", "IfPosPtr", "IfNzPtr"}
patch_target(code, from, emit_len) == [code EXCEPT ![from + 1].a = emit_len]

\* lines 128-162: the match on the tile.  Yields the instructions to emit, the
\* deferred worklist entry (if any), the next state, whether the trajectory
\* goes on, and the diagnostics.
tile_step(elf, t, len) ==
    LET fwd == [emits |-> <<>>, tiles |-> <<>>, defer |-> <<>>,
                next |-> step_fwd(elf), cont |-> TRUE, errs |-> <<>>]
    IN  CASE t.k \in {"Empty", "Elf"} -> fwd
          [] t.k = "Move" -> [fwd EXCEPT !.next = step_fwd(with_dir(elf, t.d))]
          [] t.k = "IsZero" ->
                [fwd EXCEPT !.next = step_right(elf),
                            !.defer = <<bfs_entry(step_left(elf), Some(len))>>,
                            !.emits = <<IfNzPtr(len + 1)>>,
                            !.tiles = <<FALSE>>]
          [] t.k = "IsNeg" ->
                [fwd EXCEPT !.next = step_right(elf),
                            !.defer = <<bfs_entry(step_left(elf), Some(len + 1))>>,
                            !.emits = <<ArithC("Add", 1), IfPosPtr(len + 2)>>,
                            !.tiles = <<FALSE, FALSE>>]
          [] t.k = "IsPos" ->
                [fwd EXCEPT !.next = step_left(elf),
                            !.defer = <<bfs_entry(step_right(elf), Some(len))>>,
                            !.emits = <<IfPosPtr(len + 1)>>,
                            !.tiles = <<FALSE>>]
          [] t.k = "Instr" ->
                [fwd EXCEPT !.emits = <<t.i>>,
                            !.tiles = <<TRUE>>,
                            !.cont = (t.i # Hammock)]
          [] t.k = "Unknown" -> [fwd EXCEPT !.errs = <<UnknownTile>>]

LogEntry(kind, e, at, emitted) ==
    [kind |-> kind, elf |-> e.elf, from |-> e.from, at |-> at, emitted |-> emitted]

\* lines 70-92: find the start
TP_FindStart ==
    /\ pc = "start"
    /\ LET starts == elf_starts(plan)
       IN  IF Len(starts) = 0
           THEN /\ errors' = Append(errors, MissingElfStart)
                /\ result' = "None"
                /\ pc' = "done"
                /\ bfs' = bfs
           ELSE IF Len(starts) >= 2
           THEN /\ errors' = Append(errors, MultipleElfStarts)
                /\ result' = "None"
                /\ pc' = "done"
                /\ bfs' = bfs
           ELSE /\ bfs' = <<bfs_entry(starts[1], None)>>
                /\ pc' = "loop"
                /\ UNCHANGED <<errors, result>>
    /\ UNCHANGED <<plan, emit, visited, iterlog, fromTile, runVars, pipeVars, schedVars, linkVars>>

\* lines 94, 102-105: the popped state was visited: emit Jump and bail
TP_PopVisited ==
    /\ pc = "loop"
    /\ bfs # <<>>
    /\ LET e == bfs_back(bfs)
       IN  /\ is_visited(visited, e.elf)
           /\ emit' = Append(emit, JmpPtr(visited[e.elf]))
           /\ fromTile' = Append(fromTile, FALSE)
           /\ bfs' = bfs_pop_back(bfs)
           /\ iterlog' = Append(iterlog,
                  LogEntry("visited", e, Len(emit), <<JmpPtr(visited[e.elf])>>))
    /\ UNCHANGED <<plan, pc, visited, errors, result, runVars, pipeVars, schedVars, linkVars>>

\* lines 94, 107-111: the popped state is outside the plan
TP_PopWall ==
    /\ pc = "loop"
    /\ bfs # <<>>
    /\ LET e == bfs_back(bfs)
       IN  /\ ~is_visited(visited, e.elf)
           /\ ~in_bounds(plan, e.elf)
           /\ errors' = Append(errors, ElfWallHit(e.elf.x, e.elf.y))
           /\ bfs' = bfs_pop_back(bfs)
           /\ iterlog' = Append(iterlog, LogEntry("wall", e, Len(emit), <<>>))
    /\ UNCHANGED <<plan, pc, emit, visited, result, fromTile, runVars, pipeVars, schedVars, linkVars>>

\* lines 94, 113-164: the popped state is new: record it, patch, emit
TP_Expand ==
    /\ pc = "loop"
    /\ bfs # <<>>
    /\ LET e == bfs_back(bfs)
           elf == e.elf
           emit_len == Len(emit)
           panics == e.from # None /\ ~patch_is_jump(emit, e.from[1])
           patched == IF e.from # None /\ ~panics
                      THEN patch_target(emit, e.from[1], emit_len)
                      ELSE emit
           ts == tile_step(elf, tile_at(plan, elf.x, elf.y), emit_len)
       IN  /\ ~is_visited(visited, elf)
           /\ in_bounds(plan, elf)
           /\ visited' = visited_insert(visited, elf, emit_len)
           /\ IF panics
              THEN /\ pc' = "panic"
                   /\ bfs' = bfs_pop_back(bfs)
                   /\ UNCHANGED <<emit, errors, fromTile, iterlog>>
              ELSE /\ pc' = pc
                   /\ emit' = patched \o ts.emits
                   /\ fromTile' = fromTile \o ts.tiles
                   /\ errors' = errors \o ts.errs
                   /\ bfs' = bfs_pop_back(bfs) \o ts.defer
                             \o (IF ts.cont THEN <<bfs_entry(ts.next, None)>> ELSE <<>>)
                   /\ iterlog' = Append(iterlog, LogEntry("expand", e, emit_len, ts.emits))
    /\ UNCHANGED <<plan, result, runVars, pipeVars, schedVars, linkVars>>

\* lines 94, 167: the worklist is empty: Some(emit)
TP_Return ==
    /\ pc = "loop"
    /\ bfs = <<>>
    /\ pc' = "done"
    /\ result' = "Some"
    /\ UNCHANGED <<plan, emit, visited, bfs, errors, iterlog, fromTile, runVars, pipeVars, schedVars, linkVars>>

RunIdle == [ip |-> 0, stack |-> <<>>, status |-> "-"]
WalkIdle == [elf |-> ElfState_new(0, 0, "Right"), stack |-> <<>>, status |-> "-"]
SyncIdle == [n |-> 0, tile |-> FALSE, instr |-> Nop, stack |-> <<>>, err |-> "",
             wstatus |-> "-", winstr |-> Nop, wstack |-> <<>>]

\* Runtime::new: no elves, no out-files, no pipes
Runtime_new == [outs |-> <<>>, pipes |-> <<>>, elves |-> <<>>, out_files |-> <<>>,
                status |-> "ok"]
HistNew == [writes |-> <<>>, pipes |-> <<>>]

\* Turn::Santa { ip, until } and Turn::Elf(id)
TurnSanta(ip, until) == [kind |-> "Santa", ip |-> ip, until |-> until, id |-> 0]
TurnElf(id) == [kind |-> "Elf", ip |-> 0, until |-> 0, id |-> id]

\* RunCommand and the value run returned last
CmdNone == [kind |-> "-", n |-> 0]
ErrorNone == [culprit |-> TurnSanta(0, 0), ip |-> 0, room |-> -1, code |-> "",
              arg |-> 0, stack |-> <<>>]
ResultNone == [kind |-> "-", n |-> 0, error |-> ErrorNone]

\* Runtime::new, the fields that are not pipes: cpu[id + 1] holds ip, room,
\* stack and sleeve of the elf with that id.  phase, cmd, steps, calls,
\* resets and result belong to the caller of run and of reset: "idle"
\* between two calls of run, "loop" inside the loop of run, "-" when no unit
\* is run; resets counts the caller's own calls of Runtime::reset.
Sched_new(santa, sink) ==
    [santa_ip |-> 0,
     santa_result |-> [i \in 1..Len(santa) |-> 0],
     next_elf_id |-> 0,
     schedule |-> <<TurnSanta(0, Len(santa))>>,
     monitors |-> [k \in {} |-> 0],
     output |-> [kind |-> sink, buf |-> <<>>],
     cpu |-> <<>>,
     phase |-> "idle", cmd |-> CmdNone, steps |-> 0, calls |-> 0, resets |-> 0,
     result |-> ResultNone]

UnitNone == [rooms |-> <<>>, santa |-> <<>>]
SchedNone == [Sched_new(<<>>, "Std") EXCEPT !.phase = "-"]

\* translate before it is called: nothing read, nothing emitted
ResultPending == [kind |-> "-", errors |-> <<>>, santa |-> <<>>, rooms |-> 0]
LinkNone ==
    [phase |-> "-", scode |-> <<>>, encl |-> <<>>, ident |-> [s \in {} |-> 0],
     errors |-> <<>>, open |-> <<>>, rooms |-> 0, todos |-> 0,
     ret |-> ResultPending, hist |-> <<>>]

\* no LineMap built
LocNone == [line |-> 0, col |-> 0, len |-> 0]
LineMapNone ==
    [phase |-> "-", source |-> <<>>, newlines |-> <<>>,
     start |-> 0, sublen |-> 0, loc |-> LocNone]

InitPlan ==
    /\ \E b \in BasePlans : \E ed \in EditLists(b) : plan = Edited(b, ed)
    /\ pc = "start"
    /\ emit = <<>>
    /\ visited = [s \in {} |-> 0]
    /\ bfs = <<>>
    /\ errors = <<>>
    /\ result = "-"
    /\ iterlog = <<>>
    /\ fromTile = <<>>
    /\ lin = RunIdle
    /\ walk = WalkIdle
    /\ sync = SyncIdle
    /\ steps = 0
    /\ rt = Runtime_new
    /\ hist = HistNew
    /\ ops = 0
    /\ unit = UnitNone
    /\ run = SchedNone
    /\ log = <<>>
    /\ calllog = <<>>
    /\ link = LinkNone
    /\ lmap = LineMapNone

NextPlan ==
    \/ TP_FindStart
    \/ TP_PopVisited
    \/ TP_PopWall
    \/ TP_Expand
    \/ TP_Return

SpecPlan == InitPlan /\ [][NextPlan]_vars

(***************************************************************************)
(* runtime: Elf::top_idx / Elf::top_val, Op::invoke and the stack part of  *)
(* Runtime::step_elf                                                       *)
(***************************************************************************)
\* Elf::top_idx: Ok(stack_len - from_top - 1) iff from_top < stack_len
top_ok(stack, from_top) == from_top < Len(stack)
top_idx_from_bottom(stack, from_top) == from_top
top_idx(stack, from_top) == Len(stack) - from_top - 1
top_val(stack, from_top) == stack[top_idx(stack, from_top) + 1]

\* Vec::pop, Vec::remove(index), Vec::insert(index, v), Vec::swap(i, j)
vec_pop_kept(s) == s
vec_pop(s) == SubSeq(s, 1, Len(s) - 1)
vec_remove(s, index) == SubSeq(s, 1, index) \o SubSeq(s, index + 2, Len(s))
vec_insert(s, index, v) == SubSeq(s, 1, index) \o <<v>> \o SubSeq(s, index + 1, Len(s))
vec_swap(s, i, j) == [s EXCEPT ![i + 1] = s[j + 1], ![j + 1] = s[i + 1]]

\* i64 `/` and `%`: the quotient is truncated towards zero
abs(a) == IF a < 0 THEN -a ELSE a
i64_div(a, b) ==
    IF (a < 0) = (b < 0) THEN abs(a) \div abs(b) ELSE -(abs(a) \div abs(b))
i64_rem(a, b) == a - b * i64_div(a, b)

OpOk(v) == [err |-> "", v |-> v]
OpErr(e) == [err |-> e, v |-> 0]

\* Op::invoke.  `a % 0` is no Err: the remainder operator itself panics.
Op_invoke(f, a, b) ==
    CASE f = "Add" -> OpOk(a + b)
      [] f = "Sub" -> OpOk(a - b)
      [] f = "Mul" -> OpOk(a * b)
      [] f = "Div" -> IF b = 0 THEN OpErr("DivisionByZero") ELSE OpOk(i64_div(a, b))
      [] f = "Mod" -> IF b = 0 THEN OpErr("panic") ELSE OpOk(i64_rem(a, b))

StepOk(ip, stack, finished) ==
    [ip |-> ip, stack |-> stack, finished |-> finished, err |-> "", errarg |-> 0]
StepErr(ip, stack, e, arg) ==
    [ip |-> ip, stack |-> stack, finished |-> FALSE, err |-> e, errarg |-> arg]

\* step_elf, lines 426-465 and 466-476, 504-509: the instructions that touch
\* only ip and stack.  An Err leaves ip and stack as they were.
elf_exec(code, ip, stack) ==
    LET next_ip == ip + 1
        bad(k) == StepErr(ip, stack, "InvalidIndex", k)
    IN  CASE code.op = "Nop" -> StepOk(next_ip, stack, FALSE)
          [] code.op = "Push" -> StepOk(next_ip, Append(stack, code.a), FALSE)
          [] code.op = "Dup" ->
                IF top_ok(stack, code.a)
                THEN StepOk(next_ip, Append(stack, top_val(stack, code.a)), FALSE)
                ELSE bad(code.a)
          [] code.op = "Erase" ->
                IF top_ok(stack, code.a)
                THEN StepOk(next_ip, vec_remove(stack, top_idx(stack, code.a)), FALSE)
                ELSE bad(code.a)
          [] code.op = "Tuck" ->
                IF top_ok(stack, code.a)
                THEN StepOk(next_ip,
                            vec_insert(vec_pop(stack), top_idx(stack, code.a),
                                       stack[Len(stack)]),
                            FALSE)
                ELSE bad(code.a)
          [] code.op = "Swap" ->
                IF ~top_ok(stack, 0) THEN bad(0)
                ELSE IF ~top_ok(stack, code.a) THEN bad(code.a)
                ELSE StepOk(next_ip,
                            vec_swap(stack, top_idx(stack, 0), top_idx(stack, code.a)),
                            FALSE)
          [] code.op = "JmpPtr" -> StepOk(code.a, stack, FALSE)
          [] code.op = "IfPosPtr" ->
                IF ~top_ok(stack, 0) THEN bad(0)
                ELSE StepOk(IF top_val(stack, 0) > 0 THEN code.a ELSE next_ip,
                            vec_pop(stack), FALSE)
          [] code.op = "IfNzPtr" ->
                IF ~top_ok(stack, 0) THEN bad(0)
                ELSE StepOk(IF top_val(stack, 0) # 0 THEN code.a ELSE next_ip,
                            vec_pop(stack), FALSE)
          [] code.op = "IfEmptyPtr" ->
                StepOk(IF stack = <<>> THEN code.a ELSE next_ip, stack, FALSE)
          [] code.op = "Arith" ->
                IF ~top_ok(stack, 1) THEN bad(1)
                ELSE LET r == Op_invoke(code.f, top_val(stack, 1), top_val(stack, 0))
                     IN  IF r.err # "" THEN StepErr(ip, stack, r.err, 0)
                         ELSE StepOk(next_ip, Append(vec_pop(vec_pop(stack)), r.v), FALSE)
          [] code.op = "ArithC" ->
                IF ~top_ok(stack, 0) THEN bad(0)
                ELSE LET r == Op_invoke(code.f, top_val(stack, 0), code.a)
                     IN  IF r.err # "" THEN StepErr(ip, stack, r.err, 0)
                         ELSE StepOk(next_ip, Append(vec_pop(stack), r.v), FALSE)
          [] code.op = "StackLen" -> StepOk(next_ip, Append(stack, Len(stack)), FALSE)
          [] code.op = "Hammock" -> StepOk(next_ip, stack, TRUE)

\* step_elf, lines 423-424: `elf_program.get(elf.ip).cloned().unwrap_or(Hammock)`
fetch(program, ip) == IF ip < Len(program) THEN program[ip + 1] ELSE Hammock

(***************************************************************************)
(* Running a compiled plan: Runtime::step_elf on the emitted program, next *)
(* to an elf that walks the floorplan itself, tile by tile, as the tile    *)
(* semantics describe it (parse::TileKind: "IsX means if top of stack is   *)
(* X, go right, otherwise go left").                                       *)
(***************************************************************************)
WalkResult(status, elf, stack, instr) ==
    [status |-> status, elf |-> elf, stack |-> stack, instr |-> instr]

\* whether the branching tile kind k succeeds on the value top
branch_success(k, top) ==
    CASE k = "IsZero" -> top = 0
      [] k = "IsPos" -> top > 0
      [] k = "IsNeg" -> top < 0

\* walk from state st until an Instr tile is reached
RECURSIVE WalkToInstr(_, _, _, _)
WalkToInstr(p, st, stk, fuel) ==
    IF fuel = 0 THEN WalkResult("loop", st, stk, Nop)
    ELSE IF ~in_bounds(p, st) THEN WalkResult("wall", st, stk, Nop)
    ELSE LET t == tile_at(p, st.x, st.y)
         IN  CASE t.k \in {"Empty", "Elf"} -> WalkToInstr(p, step_fwd(st), stk, fuel - 1)
               [] t.k = "Move" -> WalkToInstr(p, step_fwd(with_dir(st, t.d)), stk, fuel - 1)
               [] t.k \in {"IsZero", "IsPos", "IsNeg"} ->
                     IF stk = <<>> THEN WalkResult("fault", st, stk, Nop)
                     ELSE WalkToInstr(p,
                              IF branch_success(t.k, stk[Len(stk)])
                              THEN step_right(st) ELSE step_left(st),
                              vec_pop(stk), fuel - 1)
               [] t.k = "Instr" -> WalkResult("instr", st, stk, t.i)
               [] t.k = "Unknown" -> WalkResult("unknown", st, stk, Nop)

\* more tiles than a walk can pass without repeating itself
WalkFuel(p, stk) == p.w * p.h * 4 * (Len(stk) + 1) + 1

\* Runtime::step_santa (SetupElf): an elf at ip 0 with its initial stack
ER_Start ==
    /\ pc = "done"
    /\ result = "Some"
    /\ errors = <<>>
    /\ pc' = "run"
    /\ \E s \in InitStacks :
          /\ lin' = [ip |-> 0, stack |-> s, status |-> "run"]
          /\ walk' = [elf |-> elf_starts(plan)[1], stack |-> s, status |-> "run"]
    /\ UNCHANGED <<plan, emit, visited, bfs, errors, result, iterlog, fromTile, sync, steps, pipeVars, schedVars, linkVars>>

\* Runtime::step_elf on the emitted program; the walking elf is moved to its
\* next Instr tile whenever the program executes an instruction of a tile
ER_Step ==
    /\ pc = "run"
    /\ lin.status = "run"
    /\ steps < MaxRunSteps
    /\ steps' = steps + 1
    /\ LET code == fetch(emit, lin.ip)
           r == elf_exec(code, lin.ip, lin.stack)
           isTile == lin.ip < Len(emit) /\ fromTile[lin.ip + 1]
           w == WalkToInstr(plan, walk.elf, walk.stack, WalkFuel(plan, walk.stack))
           wr == elf_exec(w.instr, 0, w.stack)
       IN  /\ lin' = [ip |-> r.ip, stack |-> r.stack,
                      status |-> IF r.err # "" THEN "fault"
                                 ELSE IF r.finished THEN "finished" ELSE "run"]
           /\ IF isTile \/ r.err # ""
              THEN /\ sync' = [n |-> sync.n + 1, tile |-> isTile, instr |-> code,
                               stack |-> lin.stack, err |-> r.err,
                               wstatus |-> w.status, winstr |-> w.instr,
                               wstack |-> w.stack]
                   /\ walk' = IF w.status # "instr"
                              THEN [elf |-> w.elf, stack |-> w.stack, status |-> w.status]
                              ELSE IF wr.err # ""
                              THEN [elf |-> w.elf, stack |-> w.stack, status |-> "fault"]
                              ELSE IF wr.finished
                              THEN [elf |-> w.elf, stack |-> wr.stack, status |-> "finished"]
                              ELSE [elf |-> step_fwd(w.elf), stack |-> wr.stack,
                                    status |-> "run"]
              ELSE UNCHANGED <<walk, sync>>
    /\ UNCHANGED <<planVars, pipeVars, schedVars, linkVars>>

NextPlanRun ==
    \/ TP_FindStart
    \/ TP_PopVisited
    \/ TP_PopWall
    \/ TP_Expand
    \/ TP_Return
    \/ ER_Start
    \/ ER_Step

SpecPlanRun == InitPlan /\ [][NextPlanRun]_vars

(***************************************************************************)
(* C1.  Executing the emitted program from index 0 performs the same       *)
(* sequence of tile instructions on the same stack contents as the elf     *)
(* that walks the plan and turns right on success, left on failure: every  *)
(* time the program executes the instruction of a tile, the walking elf    *)
(* arrives at a tile with that instruction holding the same stack, and     *)
(* when the program faults on a branch the walking elf faults too.         *)
(***************************************************************************)
C1_ProgramRefinesWalk ==
    sync.n > 0 =>
        IF sync.tile
        THEN sync.wstatus = "instr" /\ sync.winstr = sync.instr /\ sync.wstack = sync.stack
        ELSE sync.wstatus = "fault" /\ sync.wstack = sync.stack

(***************************************************************************)
(* Claims about translate_plan                                             *)
(***************************************************************************)
BranchOps == {"JmpPtr", "IfPosPtr", "IfNzPtr", "IfEmptyPtr"}
Compiled == pc = "done" /\ result = "Some" /\ errors = <<>>
LogIdx == 1..Len(iterlog)
IsExpand(j) == iterlog[j].kind = "expand"

(***************************************************************************)
(* C2.  Jump integrity: in every Room compiled without diagnostics each    *)
(* JmpPtr / IfPosPtr / IfNzPtr / IfEmptyPtr target is an index of that     *)
(* Room's instruction vector, whether it was left at its provisional value *)
(* or written by back-patching.                                            *)
(***************************************************************************)
C2_JumpIntegrity ==
    Compiled =>
        \A j \in 1..Len(emit) :
            emit[j].op \in BranchOps => (0 <= emit[j].a /\ emit[j].a < Len(emit))

\* a Room with a back-patched branch, a provisional branch and a JmpPtr
C2_Witness ==
    /\ Compiled
    /\ \E j \in 1..Len(emit) : emit[j].op \in {"IfPosPtr", "IfNzPtr"} /\ emit[j].a # j
    /\ \E j \in 1..Len(emit) : emit[j].op \in {"IfPosPtr", "IfNzPtr"} /\ emit[j].a = j
    /\ \E j \in 1..Len(emit) : emit[j].op = "JmpPtr"

(***************************************************************************)
(* C3.  State memoization: each state (x, y, dir) is expanded at most      *)
(* once, its expansion emits at most one non-branch instruction, the memo  *)
(* holds exactly the expanded states, and every later arrival at such a    *)
(* state emits only a JmpPtr to the index recorded for it.                 *)
(***************************************************************************)
C3_StateMemoization ==
    /\ \A i, j \in LogIdx :
          (i < j /\ IsExpand(i) /\ IsExpand(j)) => iterlog[i].elf # iterlog[j].elf
    /\ \A j \in LogIdx :
          IsExpand(j) =>
             /\ Cardinality({n \in 1..Len(iterlog[j].emitted) :
                                iterlog[j].emitted[n].op \notin BranchOps}) <= 1
             /\ iterlog[j].elf \in DOMAIN visited
             /\ visited[iterlog[j].elf] = iterlog[j].at
    /\ \A s \in DOMAIN visited : \E j \in LogIdx : IsExpand(j) /\ iterlog[j].elf = s
    /\ \A j \in LogIdx :
          iterlog[j].kind = "visited" =>
             \E i \in 1..(j - 1) :
                /\ IsExpand(i)
                /\ iterlog[i].elf = iterlog[j].elf
                /\ iterlog[j].emitted = <<JmpPtr(iterlog[i].at)>>

\* a compilation that arrived at an already expanded state, twice
C3_Witness ==
    /\ pc = "done"
    /\ Cardinality({j \in LogIdx : iterlog[j].kind = "visited"}) >= 2
    /\ \E j \in LogIdx : IsExpand(j) /\ Len(iterlog[j].emitted) = 2

(***************************************************************************)
(* C4.  translate_plan terminates on every finite grid, also on grids      *)
(* whose trajectories loop without reaching a Hammock: it is never stuck   *)
(* before it returns, and the while loop runs at most 1 + 2 * (W * H * 4)  *)
(* times, since each of the W * H * 4 states is expanded at most once and  *)
(* an expansion queues at most two states.                                 *)
(***************************************************************************)
C4_Terminates ==
    /\ Len(iterlog) <= 1 + 2 * (plan.w * plan.h * 4)
    /\ Cardinality(DOMAIN visited) <= plan.w * plan.h * 4
    /\ pc \in {"start", "loop"} => ENABLED NextPlan

\* a returned compilation of a trajectory that looped and met no Hammock
C4_Witness ==
    /\ pc = "done"
    /\ result = "Some"
    /\ \E j \in LogIdx : iterlog[j].kind = "visited"
    /\ \A j \in 1..Len(emit) : emit[j] # Hammock

(***************************************************************************)
(* C5.  A floorplan with no ElfStart tile yields exactly MissingElfStart,  *)
(* one with two or more yields exactly MultipleElfStarts; no Room is       *)
(* produced and no trajectory is simulated, so no other diagnostic is      *)
(* reported for it.                                                        *)
(***************************************************************************)
NumElfStarts == Cardinality({c \in 1..Len(plan.tiles) : plan.tiles[c].k = "Elf"})

C5_StartDiagnostics ==
    NumElfStarts # 1 =>
        /\ pc \in {"start", "done"}
        /\ iterlog = <<>> /\ bfs = <<>> /\ emit = <<>> /\ visited = [s \in {} |-> 0]
        /\ pc = "done" =>
              /\ result = "None"
              /\ errors = IF NumElfStarts = 0
                          THEN <<MissingElfStart>> ELSE <<MultipleElfStarts>>

\* a plan with two ElfStart tiles and an Unknown tile has been rejected
C5_Witness ==
    /\ pc = "done"
    /\ NumElfStarts >= 2

\* a plan without ElfStart tile has been rejected
C5_WitnessMissing ==
    /\ pc = "done"
    /\ NumElfStarts = 0

(***************************************************************************)
(* C6.  Whenever a trajectory steps outside the grid (past the right or    *)
(* bottom edge, or below zero on the left or top edge, which never wraps   *)
(* to the opposite side) the compiler records ElfWallHit with that         *)
(* position, ends the trajectory without reading a tile, and goes on with  *)
(* the queued trajectories, so that all wall hits are reported together.   *)
(***************************************************************************)
DX(d) == CASE d = "Right" -> 1 [] d = "Left" -> -1 [] OTHER -> 0
DY(d) == CASE d = "Down" -> 1 [] d = "Up" -> -1 [] OTHER -> 0

\* the directions in which the tile t lets an elf heading dir leave it
Exits(t, dir) ==
    CASE t.k \in {"Empty", "Elf"} -> {dir}
      [] t.k = "Move" -> {t.d}
      [] t.k \in {"IsZero", "IsPos", "IsNeg"} ->
            IF dir \in {"Left", "Right"} THEN {"Up", "Down"} ELSE {"Left", "Right"}
      [] t.k = "Instr" -> IF t.i = Hammock THEN {} ELSE {dir}
      [] t.k = "Unknown" -> {dir}   \* the trajectory goes on past the tile

\* a coordinate below zero is reported as usize::MAX
Reported(v) == IF v < 0 THEN UsizeMax ELSE v

\* the positions outside the grid that the elf expanded at log entry j steps to
WallsOf(j) ==
    LET e == iterlog[j].elf
        t == plan.tiles[e.x + e.y * plan.w + 1]
    IN  {ElfWallHit(Reported(e.x + DX(d)), Reported(e.y + DY(d))) :
            d \in {d \in Exits(t, e.dir) :
                      \/ e.x + DX(d) < 0 \/ e.x + DX(d) >= plan.w
                      \/ e.y + DY(d) < 0 \/ e.y + DY(d) >= plan.h}}

WallErrors == SelectSeq(errors, LAMBDA e : e.code = "ElfWallHit")
WallLog == SelectSeq(iterlog, LAMBDA l : l.kind = "wall")

C6_WallHits ==
    /\ Len(WallErrors) = Len(WallLog)
    /\ \A n \in 1..Len(WallLog) :
          /\ WallErrors[n] = ElfWallHit(WallLog[n].elf.x, WallLog[n].elf.y)
          /\ WallLog[n].emitted = <<>>
          /\ WallLog[n].elf \notin DOMAIN visited
          /\ \E j \in LogIdx : IsExpand(j) /\ WallErrors[n] \in WallsOf(j)
    /\ (pc = "done" /\ result = "Some") =>
          \A j \in LogIdx :
             IsExpand(j) => \A e \in WallsOf(j) : \E n \in 1..Len(errors) : errors[n] = e

\* two wall hits reported together, one of them below zero
C6_Witness ==
    /\ pc = "done"
    /\ Len(WallErrors) >= 2
    /\ \E n \in 1..Len(WallErrors) : WallErrors[n].x = UsizeMax \/ WallErrors[n].y = UsizeMax
    /\ \E n \in 1..Len(WallErrors) : WallErrors[n].x < UsizeMax /\ WallErrors[n].y < UsizeMax

(***************************************************************************)
(* runtime/pipe.rs.  Pipes are heap objects: rt.outs holds every           *)
(* OutputPipe ever created and rt.pipes every InputPipe together with the  *)
(* mpsc channel it owns the receiving end of.  An object is named by its   *)
(* position in the heap, and 0 names no object.                            *)
(*   OutputPipe: [alive, to]   to = the Vec<Arc<Sender>>, each Arc named   *)
(*                              by the pipe whose channel it sends into    *)
(*   InputPipe:  [rx, buffer, queue, strong]                               *)
(*       rx      the InputPipe (and with it the Receiver) is not dropped   *)
(*       buffer  InputPipe::buffer                                         *)
(*       queue   the values sent into the channel and not yet received     *)
(*       strong  the strong count of the Arc<Sender>; the Sender is        *)
(*               dropped, and the channel disconnected, when it reaches 0  *)
(***************************************************************************)
\* ports an elf may name
Ports == {0, 1}
\* the port the steps of SpecPipe and SpecWired name
DrivenPorts == {0}
\* contents of the files OpenRead reads, as character codes
FileContents == {<<>>, <<11, 12>>}
\* the value of the n-th Out executed (values are told apart by n)
OutValue(n) == 100 + n

\* OutputPipe::new
OutputPipe_new == [alive |-> TRUE, to |-> <<>>]

\* mpsc::channel, Arc::new(tx) and the InputPipe around rx
InputPipe_new == [rx |-> TRUE, buffer |-> <<>>, queue |-> <<>>, strong |-> 1]

\* InputPipe::new_connected(output): the new pipe is the last one of the heap
new_connected(r, o) ==
    LET p == Len(r.pipes) + 1
    IN  [r EXCEPT !.pipes = Append(@, InputPipe_new),
                  !.outs[o].to = Append(@, p)]

\* Weak::upgrade of InputPipe::weak_tx
weak_tx_upgrade(r, p) == r.pipes[p].strong > 0

\* OutputPipe::connect(input) where the upgrade succeeds
OutputPipe_connect(r, o, p) ==
    [r EXCEPT !.pipes[p].strong = @ + 1,
              !.outs[o].to = Append(@, p)]

\* InputPipe::write_direct
write_direct(pipe, t) == [pipe EXCEPT !.buffer = Append(@, t)]

\* mpsc::Sender::send: Err, and the value is lost, when the Receiver is gone
Sender_send(pipe, t) == IF pipe.rx THEN [pipe EXCEPT !.queue = Append(@, t)] ELSE pipe

RECURSIVE write_stop_at_error(_, _, _)
write_stop_at_error(pipes, to, t) ==
    IF to = <<>> \/ ~pipes[Head(to)].rx THEN pipes
    ELSE write_stop_at_error([pipes EXCEPT ![Head(to)] = Sender_send(@, t)], Tail(to), t)

\* OutputPipe::write: the loop over `to`, results of send ignored
RECURSIVE OutputPipe_write(_, _, _)
OutputPipe_write(pipes, to, t) ==
    IF to = <<>> THEN pipes
    ELSE OutputPipe_write([pipes EXCEPT ![Head(to)] = Sender_send(@, t)], Tail(to), t)

TryRecv(res, val) == [res |-> res, val |-> val]

\* mpsc::Receiver::try_recv: a queued value first, Disconnected only after
try_recv(pipe) ==
    IF pipe.queue # <<>> THEN TryRecv("Ok", Head(pipe.queue))
    ELSE IF pipe.strong = 0 THEN TryRecv("Disconnected", 0)
    ELSE TryRecv("Empty", 0)

RECURSIVE recv_to_buffer_push_front(_)
recv_to_buffer_push_front(pipe) ==
    LET r == try_recv(pipe)
    IN  IF r.res = "Ok"
        THEN recv_to_buffer_push_front([pipe EXCEPT !.queue = Tail(@),
                                                    !.buffer = <<r.val>> \o @])
        ELSE pipe

\* InputPipe::recv_to_buffer
RECURSIVE recv_to_buffer(_)
recv_to_buffer(pipe) ==
    LET r == try_recv(pipe)
    IN  IF r.res = "Ok"
        THEN recv_to_buffer([pipe EXCEPT !.queue = Tail(@), !.buffer = Append(@, r.val)])
        ELSE pipe

ReadResult(pipe, res, val) == [pipe |-> pipe, res |-> res, val |-> val]

try_read_closed_as_empty(pipe) ==
    LET b == recv_to_buffer(pipe)
    IN  IF b.buffer # <<>>
        THEN ReadResult([b EXCEPT !.buffer = Tail(@)], "Ok", Head(b.buffer))
        ELSE LET r == try_recv(b)
             IN  IF r.res = "Ok"
                 THEN ReadResult([b EXCEPT !.queue = Tail(@)], "Ok", r.val)
                 ELSE ReadResult(b, "Empty", 0)

\* InputPipe::try_read
try_read(pipe) ==
    LET b == recv_to_buffer(pipe)
    IN  IF b.buffer # <<>>
        THEN ReadResult([b EXCEPT !.buffer = Tail(@)], "Ok", Head(b.buffer))
        ELSE LET r == try_recv(b)
             IN  IF r.res = "Ok"
                 THEN ReadResult([b EXCEPT !.queue = Tail(@)], "Ok", r.val)
                 ELSE IF r.res = "Disconnected"
                 THEN ReadResult(b, "Closed", 0)
                 ELSE ReadResult(b, "Empty", 0)

\* Drop of an OutputPipe: every Arc in `to` gives up its strong count
RECURSIVE drop_arcs(_, _)
drop_arcs(pipes, to) ==
    IF to = <<>> THEN pipes
    ELSE drop_arcs([pipes EXCEPT ![Head(to)].strong = @ - 1], Tail(to))

drop_output(r, o) ==
    [r EXCEPT !.outs[o] = [alive |-> FALSE, to |-> <<>>],
              !.pipes = drop_arcs(@, r.outs[o].to)]

\* Drop of an InputPipe: the Receiver goes, and what it held with it
drop_input(r, p) ==
    [r EXCEPT !.pipes[p] = [@ EXCEPT !.rx = FALSE, !.buffer = <<>>, !.queue = <<>>]]

(***************************************************************************)
(* runtime/mod.rs: the elves as owners of pipes.  rt.elves[id + 1] is the  *)
(* elf with that id: [alive, inputs, outputs], the two maps giving the     *)
(* pipe of a port or 0; alive is FALSE once the elf has been removed from  *)
(* Runtime::elves.  rt.out_files holds the pipe of every OutFile.  The     *)
(* stack of an elf is not followed here: the value In reads is pushed and  *)
(* the value Out writes is whatever the elf has on top.                    *)
(***************************************************************************)
NoPorts == [q \in Ports |-> 0]
Elf_new == [alive |-> TRUE, inputs |-> NoPorts, outputs |-> NoPorts]

panicked(r) == [r EXCEPT !.status = "panic"]

\* Elf::ensure_output: the runtime after it and the output it returns
ensure_output(r, e, port) ==
    IF r.elves[e].outputs[port] # 0
    THEN [rt |-> r, out |-> r.elves[e].outputs[port]]
    ELSE [rt |-> [r EXCEPT !.outs = Append(@, OutputPipe_new),
                           !.elves[e].outputs[port] = Len(r.outs) + 1],
          out |-> Len(r.outs) + 1]

\* Elf::ensure_input(port, connect); OutputPipe::connect panics (todo!) when
\* the pipe of an occupied port has no Sender left
ensure_input(r, e, port, o) ==
    LET p == r.elves[e].inputs[port]
    IN  IF p # 0
        THEN IF weak_tx_upgrade(r, p) THEN OutputPipe_connect(r, o, p) ELSE panicked(r)
        ELSE [new_connected(r, o) EXCEPT !.elves[e].inputs[port] = Len(r.pipes) + 1]

\* SantaCode::Connect.  get_disjoint_mut panics on equal keys and yields None
\* for an elf that is gone, which runs into the panic! of the last branch.
santa_Connect(r, se, sp, de, dp) ==
    IF se # de /\ r.elves[se].alive /\ r.elves[de].alive
    THEN LET a == ensure_output(r, se, sp)
         IN  ensure_input(a.rt, de, dp, a.out)
    ELSE panicked(r)

OpenRead_temporary_kept(r, t) == r

\* the temporary of `&mut OutputPipe::new()` is dropped with its statement
OpenRead_temporary(r, t) == drop_output(r, t)

RECURSIVE write_direct_all(_, _)
write_direct_all(pipe, content) ==
    IF content = <<>> THEN pipe
    ELSE write_direct_all(write_direct(pipe, Head(content)), Tail(content))

\* SantaCode::OpenRead
santa_OpenRead(r, content, de, dp) ==
    IF ~r.elves[de].alive THEN panicked(r)
    ELSE LET t == Len(r.outs) + 1
             r1 == [r EXCEPT !.outs = Append(@, OutputPipe_new)]
             r2 == ensure_input(r1, de, dp, t)
             p == r2.elves[de].inputs[dp]
         IN  IF r2.status = "panic" THEN panicked(r)
             ELSE [OpenRead_temporary(r2, t) EXCEPT
                      !.pipes[p] = write_direct_all(@, content)]

\* SantaCode::OpenWrite
santa_OpenWrite(r, se, sp) ==
    IF ~r.elves[se].alive THEN panicked(r)
    ELSE LET a == ensure_output(r, se, sp)
         IN  [new_connected(a.rt, a.out) EXCEPT
                 !.out_files = Append(@, Len(a.rt.pipes) + 1)]

RECURSIVE drop_outputs(_, _)
drop_outputs(r, os) ==
    IF os = {} THEN r
    ELSE LET o == CHOOSE x \in os : TRUE
         IN  drop_outputs(drop_output(r, o), os \ {o})

RECURSIVE drop_inputs(_, _)
drop_inputs(r, ps) ==
    IF ps = {} THEN r
    ELSE LET p == CHOOSE x \in ps : TRUE
         IN  drop_inputs(drop_input(r, p), ps \ {p})

elves_remove_kept(r, e) == r

\* Runtime::run, Event::Dequeue of an elf: elves.remove(id) drops the elf
\* and with it every pipe of its port maps
elves_remove(r, e) ==
    LET ins == {r.elves[e].inputs[q] : q \in Ports} \ {0}
        os == {r.elves[e].outputs[q] : q \in Ports} \ {0}
    IN  [drop_outputs(drop_inputs(r, ins), os) EXCEPT
            !.elves[e] = [alive |-> FALSE, inputs |-> NoPorts, outputs |-> NoPorts]]

ElfStep(r, res, val, event) == [rt |-> r, res |-> res, val |-> val, event |-> event]

\* Runtime::step_elf, In(port), and the requeue of Runtime::run
elf_In(r, e, port) ==
    LET p == r.elves[e].inputs[port]
    IN  IF p = 0 THEN ElfStep(elves_remove(r, e), "None", 0, "Dequeue")
        ELSE LET t == try_read(r.pipes[p])
                 r1 == [r EXCEPT !.pipes[p] = t.pipe]
             IN  IF t.res = "Ok" THEN ElfStep(r1, "Ok", t.val, "")
                 ELSE IF t.res = "Empty" THEN ElfStep(r1, "Empty", 0, "Yield")
                 ELSE ElfStep(elves_remove(r1, e), "Closed", 0, "Dequeue")

\* Runtime::step_elf, Out(port), with `top` on top of the stack
elf_Out(r, e, port, top) ==
    LET o == r.elves[e].outputs[port]
    IN  IF o # 0
        THEN ElfStep([r EXCEPT !.pipes = OutputPipe_write(@, r.outs[o].to, top)],
                     "", top, "Write")
        ELSE ElfStep(r, "", top, "")

\* Runtime::step_elf, Hammock, and the requeue of Runtime::run
elf_Hammock(r, e) == ElfStep(elves_remove(r, e), "", 0, "Dequeue")

\* Runtime::flush_outs for one file: the values read until try_read fails
RECURSIVE flush_pipe(_)
flush_pipe(pipe) ==
    LET t == try_read(pipe)
    IN  IF t.res = "Ok"
        THEN LET rest == flush_pipe(t.pipe)
             IN  [pipe |-> rest.pipe, vals |-> <<t.val>> \o rest.vals, last |-> rest.last]
        ELSE [pipe |-> t.pipe, vals |-> <<>>, last |-> t.res]

(***************************************************************************)
(* History of the pipes (not program state).                               *)
(*   hist.writes    one entry per OutputPipe::write: the output, the       *)
(*                  value, the `to` it had and the pipes not yet dropped   *)
(*   hist.pipes[p]  reads:  one entry per try_read of pipe p               *)
(*                  direct: the values given to write_direct               *)
(*                  regs:   the outputs that Connect and OpenWrite gave a  *)
(*                          Sender handle of p                             *)
(***************************************************************************)
HistPipeNew == [reads |-> <<>>, direct |-> <<>>, regs |-> <<>>]

Count(s, x) == Cardinality({i \in DOMAIN s : s[i] = x})

RECURSIVE HandlesFrom(_, _, _)
HandlesFrom(r, p, o) ==
    IF o > Len(r.outs) THEN 0
    ELSE (IF r.outs[o].alive THEN Count(r.outs[o].to, p) ELSE 0) + HandlesFrom(r, p, o + 1)

\* the strong Sender handles of pipe p that exist anywhere
Handles(r, p) == HandlesFrom(r, p, 1)

\* the values of pipe p that are buffered or in flight
Available(r, p) == Len(r.pipes[p].buffer) + Len(r.pipes[p].queue)

ReadEntry(r, p, res, val, event) ==
    [res |-> res, val |-> val, event |-> event,
     avail |-> Available(r, p), handles |-> Handles(r, p),
     seen |-> Len(hist.writes)]

to_before(r, o) == IF o <= Len(r.outs) THEN r.outs[o].to ELSE <<>>

NewRegs(r, r2, p) ==
    {o \in 1..Len(r2.outs) : Count(r2.outs[o].to, p) > Count(to_before(r, o), p)}

Registered(r, r2, h) ==
    [h EXCEPT !.pipes =
        [p \in 1..Len(r2.pipes) |->
            LET old == IF p <= Len(h.pipes) THEN h.pipes[p] ELSE HistPipeNew
                new == NewRegs(r, r2, p)
            IN  IF new = {} THEN old
                ELSE [old EXCEPT !.regs = Append(@, CHOOSE o \in new : TRUE)]]]

\* a history entry for every pipe of r2, nothing else changed
Padded(r2, h) ==
    [h EXCEPT !.pipes =
        [p \in 1..Len(r2.pipes) |->
            IF p <= Len(h.pipes) THEN h.pipes[p] ELSE HistPipeNew]]

LivePipes(r) == {p \in 1..Len(r.pipes) : r.pipes[p].rx}

\* the entries flush_outs adds for one file
FlushEntries(r, p, f) ==
    [i \in 1..(Len(f.vals) + 1) |->
        [res |-> IF i <= Len(f.vals) THEN "Ok" ELSE f.last,
         val |-> IF i <= Len(f.vals) THEN f.vals[i] ELSE 0,
         event |-> "",
         avail |-> IF Available(r, p) >= i THEN Available(r, p) - i + 1 ELSE 0,
         handles |-> Handles(r, p),
         seen |-> Len(hist.writes)]]

(***************************************************************************)
(* The pipes as the runtime drives them.  Director lines and elf           *)
(* instructions are taken in any order and with any operands: every        *)
(* program's use of the pipes is one of these runs.                        *)
(***************************************************************************)
PipeReady ==
    /\ rt.status = "ok"
    /\ \/ pc = "pipes" /\ ops < MaxPipeOps
       \/ pc = "wired" /\ ops < MaxWiredOps

Elves == 1..Len(rt.elves)
AliveElves == {e \in Elves : rt.elves[e].alive}

\* SantaCode::SetupElf
PS_SetupElf ==
    /\ pc = "pipes" /\ rt.status = "ok"
    /\ Len(rt.elves) < MaxElves
    /\ rt' = [rt EXCEPT !.elves = Append(@, Elf_new)]
    /\ UNCHANGED <<planVars, runVars, schedVars, hist, ops, linkVars>>

PS_Connect ==
    /\ PipeReady
    /\ \E se \in Elves, de \in Elves, sp \in DrivenPorts, dp \in DrivenPorts :
          /\ rt' = santa_Connect(rt, se, sp, de, dp)
          /\ hist' = Registered(rt, rt', hist)
    /\ ops' = ops + 1
    /\ UNCHANGED <<planVars, runVars, schedVars, linkVars>>

PS_OpenRead ==
    /\ PipeReady
    /\ \E content \in FileContents, de \in Elves, dp \in DrivenPorts :
          /\ rt' = santa_OpenRead(rt, content, de, dp)
          /\ LET h == Padded(rt', hist)
                 p == rt'.elves[de].inputs[dp]
             IN  hist' = IF rt'.status = "panic" THEN hist
                         ELSE [h EXCEPT !.pipes[p].direct = @ \o content]
    /\ ops' = ops + 1
    /\ UNCHANGED <<planVars, runVars, schedVars, linkVars>>

PS_OpenWrite ==
    /\ PipeReady
    /\ \E se \in Elves, sp \in DrivenPorts :
          /\ rt' = santa_OpenWrite(rt, se, sp)
          /\ hist' = Registered(rt, rt', hist)
    /\ ops' = ops + 1
    /\ UNCHANGED <<planVars, runVars, schedVars, linkVars>>

PS_In ==
    /\ PipeReady
    /\ \E e \in AliveElves, port \in DrivenPorts :
          LET s == elf_In(rt, e, port)
              p == rt.elves[e].inputs[port]
          IN  /\ rt' = s.rt
              /\ hist' = IF p = 0 THEN hist
                         ELSE [hist EXCEPT !.pipes[p].reads =
                                  Append(@, ReadEntry(rt, p, s.res, s.val, s.event))]
    /\ ops' = ops + 1
    /\ UNCHANGED <<planVars, runVars, schedVars, linkVars>>

PS_Out ==
    /\ PipeReady
    /\ \E e \in AliveElves, port \in DrivenPorts :
          LET top == OutValue(Len(hist.writes) + 1)
              s == elf_Out(rt, e, port, top)
              o == rt.elves[e].outputs[port]
          IN  /\ rt' = s.rt
              /\ hist' = IF o = 0 THEN hist
                         ELSE [hist EXCEPT !.writes =
                                  Append(@, [out |-> o, val |-> top, to |-> rt.outs[o].to,
                                             live |-> LivePipes(rt)])]
    /\ ops' = ops + 1
    /\ UNCHANGED <<planVars, runVars, schedVars, linkVars>>

PS_Hammock ==
    /\ PipeReady
    /\ \E e \in AliveElves : rt' = elf_Hammock(rt, e).rt
    /\ ops' = ops + 1
    /\ UNCHANGED <<planVars, runVars, schedVars, hist, linkVars>>

\* Runtime::flush_outs
PS_Flush ==
    /\ PipeReady
    /\ rt.out_files # <<>>
    /\ LET files == {rt.out_files[i] : i \in DOMAIN rt.out_files}
       IN  /\ rt' = [rt EXCEPT !.pipes =
                        [p \in DOMAIN rt.pipes |->
                            IF p \in files THEN flush_pipe(rt.pipes[p]).pipe
                            ELSE rt.pipes[p]]]
           /\ hist' = [hist EXCEPT !.pipes =
                          [p \in DOMAIN hist.pipes |->
                              IF p \in files
                              THEN [hist.pipes[p] EXCEPT !.reads =
                                       @ \o FlushEntries(rt, p, flush_pipe(rt.pipes[p]))]
                              ELSE hist.pipes[p]]]
    /\ ops' = ops + 1
    /\ UNCHANGED <<planVars, runVars, schedVars, linkVars>>

InitPipe ==
    /\ plan = PlanSimple
    /\ pc = "pipes"
    /\ emit = <<>>
    /\ visited = [s \in {} |-> 0]
    /\ bfs = <<>>
    /\ errors = <<>>
    /\ result = "-"
    /\ iterlog = <<>>
    /\ fromTile = <<>>
    /\ lin = RunIdle
    /\ walk = WalkIdle
    /\ sync = SyncIdle
    /\ steps = 0
    /\ rt = Runtime_new
    /\ hist = HistNew
    /\ ops = 0
    /\ unit = UnitNone
    /\ run = SchedNone
    /\ log = <<>>
    /\ calllog = <<>>
    /\ link = LinkNone
    /\ lmap = LineMapNone

NextPipe ==
    \/ PS_SetupElf
    \/ PS_Connect
    \/ PS_OpenRead
    \/ PS_OpenWrite
    \/ PS_In
    \/ PS_Out
    \/ PS_Hammock
    \/ PS_Flush

SpecPipe == InitPipe /\ [][NextPipe]_vars

\* two elves, the output of the first connected to the input of the second:
\* the runtime after the director lines SetupElf, SetupElf, Connect
Runtime_connected ==
    santa_Connect([Runtime_new EXCEPT !.elves = <<Elf_new, Elf_new>>], 1, 0, 2, 0)

InitWired ==
    /\ plan = PlanSimple
    /\ pc = "wired"
    /\ emit = <<>>
    /\ visited = [s \in {} |-> 0]
    /\ bfs = <<>>
    /\ errors = <<>>
    /\ result = "-"
    /\ iterlog = <<>>
    /\ fromTile = <<>>
    /\ lin = RunIdle
    /\ walk = WalkIdle
    /\ sync = SyncIdle
    /\ steps = 0
    /\ rt = Runtime_connected
    /\ hist = Registered(Runtime_new, Runtime_connected, HistNew)
    /\ ops = 0
    /\ unit = UnitNone
    /\ run = SchedNone
    /\ log = <<>>
    /\ calllog = <<>>
    /\ link = LinkNone
    /\ lmap = LineMapNone

NextWired ==
    \/ PS_Connect
    \/ PS_OpenWrite
    \/ PS_In
    \/ PS_Out
    \/ PS_Hammock
    \/ PS_Flush

SpecWired == InitWired /\ [][NextWired]_vars

(***************************************************************************)
(* Claims about the pipes.                                                 *)
(***************************************************************************)
PipeIds == 1..Len(rt.pipes)
Reads(p) == hist.pipes[p].reads

RECURSIVE ValsOf(_)
ValsOf(s) == IF s = <<>> THEN <<>> ELSE <<Head(s).val>> \o ValsOf(Tail(s))

\* the values the successful try_read calls of pipe p returned, in order
OkVals(p) == ValsOf(SelectSeq(Reads(p), LAMBDA e : e.res = "Ok"))

\* the values written, up to the n-th write, by outputs that held a handle
\* of pipe p while p was not dropped
WrittenTo(p, n) ==
    ValsOf(SelectSeq(SubSeq(hist.writes, 1, n),
                     LAMBDA w : Count(w.to, p) > 0 /\ p \in w.live))

IsPrefix(a, b) == Len(a) <= Len(b) /\ SubSeq(b, 1, Len(a)) = a

\* pipe p was connected once, to one output, and never written directly
SinglyConnected(p) ==
    /\ Len(hist.pipes[p].regs) = 1
    /\ hist.pipes[p].direct = <<>>

\* C7: for one output connected to one input, the successful reads return
\* the values written, in the order written, none lost and none twice:
\* what was read is always a prefix of what was written, what was written
\* and not yet read is still held by the pipe, and a read fails only when
\* everything written before it has been read.
C7_FifoSingleWriter ==
    \A p \in PipeIds :
       SinglyConnected(p) =>
          /\ IsPrefix(OkVals(p), WrittenTo(p, Len(hist.writes)))
          /\ rt.pipes[p].rx =>
                OkVals(p) \o rt.pipes[p].buffer \o rt.pipes[p].queue
                   = WrittenTo(p, Len(hist.writes))
          /\ \A i \in 1..Len(Reads(p)) :
                Reads(p)[i].res # "Ok" =>
                   Cardinality({j \in 1..i : Reads(p)[j].res = "Ok"})
                      = Len(WrittenTo(p, Reads(p)[i].seen))

\* a value is read, two more are written behind one that is still buffered,
\* and all three come out in the order written
C7_Witness ==
    \E p \in PipeIds :
       /\ SinglyConnected(p)
       /\ Len(OkVals(p)) >= 3
       /\ Reads(p)[1].res = "Ok" /\ Reads(p)[1].seen = 2
       /\ Reads(p)[2].res = "Ok" /\ Reads(p)[2].seen = 3

\* pipe p was created by OpenRead: no Connect and no OpenWrite gave an
\* output a handle of it
DirectOnly(p) == hist.pipes[p].regs = <<>>

\* C8: a pipe filled only by write_direct, as OpenRead fills it, returns
\* the pre-filled values in order and then Closed, never Empty; the elf
\* that reads it with In never yields on it and is finished (removed from
\* the active set) by the first In after the last value.
C8_ClosedOnDrain ==
    \A p \in PipeIds :
       DirectOnly(p) =>
          LET direct == hist.pipes[p].direct
          IN  /\ IsPrefix(OkVals(p), direct)
              /\ Len(Reads(p)) <= Len(direct) + 1
              /\ \A i \in 1..Len(Reads(p)) :
                    /\ Reads(p)[i].res # "Empty"
                    /\ Reads(p)[i].event # "Yield"
                    /\ Reads(p)[i].res = "Closed" <=> i = Len(direct) + 1
                    /\ Reads(p)[i].res = "Closed" => Reads(p)[i].event = "Dequeue"
              /\ Len(Reads(p)) = Len(direct) + 1 =>
                    /\ ~rt.pipes[p].rx
                    /\ \A e \in Elves : rt.elves[e].inputs[0] = p => ~rt.elves[e].alive

\* a file of two characters was read through In, and the third In closed
C8_Witness ==
    \E p \in PipeIds :
       /\ DirectOnly(p)
       /\ hist.pipes[p].direct = <<11, 12>>
       /\ OkVals(p) = <<11, 12>>
       /\ Len(Reads(p)) = 3
       /\ Reads(p)[3].res = "Closed"
       /\ Reads(p)[3].event = "Dequeue"

\* C9: try_read returns Ok whenever a value is buffered or in flight; with
\* no value available it returns Closed iff no strong Sender handle of the
\* pipe exists in any output, and Empty iff at least one exists.
C9_TryReadResult ==
    \A p \in PipeIds :
       \A i \in 1..Len(Reads(p)) :
          LET e == Reads(p)[i]
          IN  /\ e.avail > 0 => e.res = "Ok"
              /\ e.avail = 0 =>
                    /\ e.res = "Closed" <=> e.handles = 0
                    /\ e.res = "Empty" <=> e.handles > 0

\* one pipe answered Ok, then Empty while its writer lived, then, with a
\* value still in flight when the last handle was dropped, Ok and Closed
C9_Witness ==
    \E p \in PipeIds :
       /\ Len(Reads(p)) >= 4
       /\ \E i, j, k, l \in 1..Len(Reads(p)) :
             /\ i < j /\ j < k /\ k < l
             /\ Reads(p)[i].res = "Ok"
             /\ Reads(p)[j].res = "Empty" /\ Reads(p)[j].handles > 0
             /\ Reads(p)[k].res = "Ok" /\ Reads(p)[k].handles = 0
             /\ Reads(p)[l].res = "Closed" /\ Reads(p)[l].handles = 0

\* the copies of value v that pipe p has returned or still holds
Copies(p, v) ==
    Count(OkVals(p), v)
       + (IF rt.pipes[p].rx
          THEN Count(rt.pipes[p].buffer, v) + Count(rt.pipes[p].queue, v)
          ELSE 0)

WriteIds == 1..Len(hist.writes)

\* C10 as stated: every write delivers exactly one copy to every input
\* connected to the output, whatever number of handles the output holds.
C10_OneCopyPerInput ==
    \A k \in WriteIds : \A p \in PipeIds :
       LET w == hist.writes[k]
       IN  (rt.pipes[p].rx /\ Count(w.to, p) > 0) => Copies(p, w.val) = 1

\* C10, amended: every write delivers exactly one copy for every Sender
\* handle registered in the output: an input connected once gets one copy,
\* an input that repeated Connects registered k times gets k; an input not
\* registered gets none; a dropped input gets nothing and does not change
\* what the others get.
C10_OneCopyPerHandle ==
    \A k \in WriteIds : \A p \in PipeIds :
       LET w == hist.writes[k]
           due == IF p \in w.live THEN Count(w.to, p) ELSE 0
       IN  IF rt.pipes[p].rx
           THEN Copies(p, w.val) = due
           ELSE Copies(p, w.val) <= due

\* a write to an output holding the handle of a dropped input and, after
\* it, the handle of an input that has since returned the one copy it got
C10_Witness ==
    \E k \in WriteIds : \E i, j \in 1..Len(hist.writes[k].to) :
       LET w == hist.writes[k]
       IN  /\ i < j
           /\ w.to[i] \notin w.live
           /\ w.to[j] \in w.live
           /\ Count(w.to, w.to[j]) = 1
           /\ Count(OkVals(w.to[j]), w.val) = 1

(***************************************************************************)
(* runtime/mod.rs: the director, the elves and the schedule.               *)
(*                                                                         *)
(* ir::SantaCode as step_santa matches on it, one record shape for every   *)
(* variant: a, ap = the first (line, port), b, bp = the second, n = the    *)
(* block length of Monitor, data = the stack of SetupElf or the characters *)
(* OpenRead finds in its file.                                             *)
(***************************************************************************)
MkSanta(op, a, ap, b, bp, n, data) ==
    [op |-> op, a |-> a, ap |-> ap, b |-> b, bp |-> bp, n |-> n, data |-> data]
SetupElf(room, stack) == MkSanta("SetupElf", room, 0, 0, 0, 0, stack)
Connect(src, sp, dst, dp) == MkSanta("Connect", src, sp, dst, dp, 0, <<>>)
OpenRead(content, dst, dp) == MkSanta("OpenRead", 0, 0, dst, dp, 0, content)
OpenWrite(src, sp) == MkSanta("OpenWrite", src, sp, 0, 0, 0, <<>>)
Monitor(line, port, block_len) == MkSanta("Monitor", line, port, 0, 0, block_len, <<>>)
Receive(line, port) == MkSanta("Receive", line, port, 0, 0, 0, <<>>)
Send(line, port, expr) == MkSanta("Send", line, port, expr, 0, 0, <<>>)
Deliver(line) == MkSanta("Deliver", line, 0, 0, 0, 0, <<>>)

\* the instructions of ir::Instr that elf_exec does not cover
In(port) == MkInstr("In", "-", port)
Out(port) == MkInstr("Out", "-", port)
Read(slot) == MkInstr("Read", "-", slot)
Write(slot) == MkInstr("Write", "-", slot)
Label == MkInstr("Label", "-", 0)
Jmp == MkInstr("Jmp", "-", 0)
IfPos == MkInstr("IfPos", "-", 0)
IfNz == MkInstr("IfNz", "-", 0)

\* the sleeve of a new elf: Box::new([0; 10])
SleeveSlots == 10
Sleeve_new == [i \in 0..(SleeveSlots - 1) |-> 0]

Cpu_new(room, stack) ==
    [ip |-> 0, room |-> room, stack |-> stack, sleeve |-> Sleeve_new, finished |-> FALSE]

\* The words of Runtime::santa_result are usize, 64 bits wide, and TLC's
\* integers are 32 bits wide.  A word u is written as the Int with the same
\* 64 bits: u itself when u < 2^63, and u - 2^64 from 2^63 on, so that
\* usize::MAX is written -1 and 2^64 - 2147483647 is written -2147483647.
\* Distinct words have distinct numerals, and no word from 2^63 on shares
\* its numeral with an elf id or a line.

\* the key `id` of Runtime::elves, a HashMap<usize, Elf>: the ids SetupElf
\* has handed out are 0 .. next_elf_id - 1, and a word from 2^63 on is none
is_elf_id(r, id) == 0 <= id /\ id < Len(r.elves)

\* HashMap::get on Runtime::elves
elf_known(r, id) == is_elf_id(r, id) /\ r.elves[id + 1].alive

SantaStep(r, u, event) == [rt |-> r, run |-> u, event |-> event]

monitors_insert(m, key, v) ==
    [k \in DOMAIN m \cup {key} |-> IF k = key THEN v ELSE m[k]]

\* step_santa, Receive: `recvd as _`, an i64 stored in a Vec<usize>.  The
\* cast keeps the 64 bits: v >= 0 becomes the word v, and v < 0 the word
\* 2^64 + v, whose numeral is v.
as_usize(v) == v

as_u8_whole(v) == v

\* step_santa, Deliver: `self.santa_result[*line] as u8`, the low 8 bits of
\* the word.  2^64 is a multiple of 256, so the word 2^64 + v and its numeral
\* v have the same remainder; % gives the remainder in 0 .. 255 for v < 0 too.
as_u8(v) == v % 256

\* step_santa, Monitor: `next_ip = self.santa_ip + *block_len`
Monitor_next_ip(S, block_len) == S + block_len

\* Runtime::step_santa.  The ip and the until of the turn are not looked at:
\* the line fetched is the one self.santa_ip names.
step_santa(r, u, santa) ==
    IF u.santa_ip >= Len(santa) THEN SantaStep(r, u, "Dequeue")
    ELSE
    LET S == u.santa_ip
        code == santa[S + 1]
        res(l) == u.santa_result[l + 1]
        done(r2, u2, next_ip, event) ==
            SantaStep(r2, [u2 EXCEPT !.santa_ip = next_ip], event)
        panic == SantaStep(panicked(r), u, "")
    IN  CASE code.op = "SetupElf" ->
               LET id == u.next_elf_id
               IN  done([r EXCEPT !.elves = Append(@, Elf_new)],
                        [u EXCEPT !.next_elf_id = @ + 1,
                                  !.schedule = Append(@, TurnElf(id)),
                                  !.santa_result[S + 1] = id,
                                  !.cpu = Append(@, Cpu_new(code.a, code.data))],
                        S + 1, "")
          [] code.op = "Connect" ->
               IF is_elf_id(r, res(code.a)) /\ is_elf_id(r, res(code.b))
               THEN LET r2 == santa_Connect(r, res(code.a) + 1, code.ap,
                                            res(code.b) + 1, code.bp)
                    IN  IF r2.status = "panic" THEN panic ELSE done(r2, u, S + 1, "")
               ELSE panic
          [] code.op = "OpenRead" ->
               IF is_elf_id(r, res(code.b))
               THEN LET r2 == santa_OpenRead(r, code.data, res(code.b) + 1, code.bp)
                    IN  IF r2.status = "panic" THEN panic ELSE done(r2, u, S + 1, "")
               ELSE panic
          [] code.op = "OpenWrite" ->
               IF is_elf_id(r, res(code.a))
               THEN LET r2 == santa_OpenWrite(r, res(code.a) + 1, code.ap)
                    IN  IF r2.status = "panic" THEN panic ELSE done(r2, u, S + 1, "")
               ELSE panic
          [] code.op = "Monitor" ->
               LET elf_id == res(code.a)
                   key == <<elf_id, code.ap>>
               IN  IF ~elf_known(r, elf_id) \/ key \in DOMAIN u.monitors THEN panic
                   ELSE LET o == ensure_output(r, elf_id + 1, code.ap)
                            v == [pipe |-> Len(o.rt.pipes) + 1, line |-> S]
                        IN  done(new_connected(o.rt, o.out),
                                 [u EXCEPT !.monitors = monitors_insert(@, key, v)],
                                 Monitor_next_ip(S, code.n), "")
          [] code.op = "Receive" ->
               LET key == <<res(code.a), code.ap>>
               IN  IF key \notin DOMAIN u.monitors THEN panic
                   ELSE LET p == u.monitors[key].pipe
                            t == try_read(r.pipes[p])
                            r1 == [r EXCEPT !.pipes[p] = t.pipe]
                        IN  IF t.res = "Closed" THEN done(r1, u, S + 1, "Dequeue")
                            ELSE IF t.res = "Empty" THEN done(r1, u, S, "Yield")
                            ELSE done(r1, [u EXCEPT !.santa_result[S + 1] = as_usize(t.val)],
                                      S + 1, "")
          [] code.op = "Deliver" ->
               LET c == as_u8(res(code.a))
               IN  done(r, [u EXCEPT !.output.buf =
                                 IF u.output.kind = "Buffer" THEN Append(@, c) ELSE @],
                        S + 1, "")
          [] OTHER -> panic

ElfResult(r, u, event, port, err, arg) ==
    [rt |-> r, run |-> u, event |-> event, port |-> port, err |-> err, arg |-> arg]

\* step_elf, In on an empty pipe: `next_ip = elf.ip; // wait here for input`
wait_for_input(ip) == ip

\* Runtime::step_elf.  An Err (the `?` of top_idx, top_val and invoke)
\* returns before anything of the elf was written.
step_elf(r, u, id, rooms) ==
    IF ~elf_known(r, id) THEN ElfResult(panicked(r), u, "", 0, "", 0)
    ELSE
    LET e == id + 1
        elf == u.cpu[e]
        code == fetch(rooms[elf.room + 1], elf.ip)
        fail(err, arg) == ElfResult(r, u, "", 0, err, arg)
        ok(r2, next_ip, stack, sleeve, finished, event, port) ==
            ElfResult(r2,
                      [u EXCEPT !.cpu[e] = [ip |-> next_ip, room |-> elf.room,
                                            stack |-> stack, sleeve |-> sleeve,
                                            finished |-> finished]],
                      IF finished THEN "Dequeue" ELSE event, port, "", 0)
    IN  CASE code.op = "In" ->
               LET p == r.elves[e].inputs[code.a]
               IN  IF p = 0
                   THEN ok(r, elf.ip + 1, elf.stack, elf.sleeve, TRUE, "", 0)
                   ELSE LET t == try_read(r.pipes[p])
                            r1 == [r EXCEPT !.pipes[p] = t.pipe]
                        IN  IF t.res = "Ok"
                            THEN ok(r1, elf.ip + 1, Append(elf.stack, t.val), elf.sleeve,
                                    FALSE, "", 0)
                            ELSE IF t.res = "Empty"
                            THEN ok(r1, wait_for_input(elf.ip), elf.stack, elf.sleeve,
                                    FALSE, "Yield", 0)
                            ELSE ok(r1, elf.ip + 1, elf.stack, elf.sleeve, TRUE, "", 0)
          [] code.op = "Out" ->
               IF ~top_ok(elf.stack, 0) THEN fail("InvalidIndex", 0)
               ELSE LET s == elf_Out(r, e, code.a, top_val(elf.stack, 0))
                    IN  ok(s.rt, elf.ip + 1, vec_pop(elf.stack), elf.sleeve, FALSE,
                           s.event, code.a)
          [] code.op = "Read" ->
               IF code.a >= SleeveSlots THEN ElfResult(panicked(r), u, "", 0, "", 0)
               ELSE ok(r, elf.ip + 1, Append(elf.stack, elf.sleeve[code.a]), elf.sleeve,
                       FALSE, "", 0)
          [] code.op = "Write" ->
               IF ~top_ok(elf.stack, 0) THEN fail("InvalidIndex", 0)
               ELSE IF code.a >= SleeveSlots THEN ElfResult(panicked(r), u, "", 0, "", 0)
               ELSE ok(r, elf.ip + 1, vec_pop(elf.stack),
                       [elf.sleeve EXCEPT ![code.a] = top_val(elf.stack, 0)],
                       FALSE, "", 0)
          [] code.op = "Label" ->
               ok(r, elf.ip + 1, elf.stack, elf.sleeve, FALSE, "", 0)
          [] code.op \in {"Jmp", "IfPos", "IfNz"} -> fail("InvalidInstr", 0)
          [] OTHER ->
               LET x == elf_exec(code, elf.ip, elf.stack)
               IN  IF x.err = "panic" THEN ElfResult(panicked(r), u, "", 0, "", 0)
                   ELSE IF x.err # "" THEN fail(x.err, x.errarg)
                   ELSE ok(r, x.ip, x.stack, elf.sleeve, x.finished, "", 0)

\* Runtime::flush_outs: every out-file reads its pipe until try_read fails
flush_outs(r) ==
    LET files == {r.out_files[i] : i \in DOMAIN r.out_files}
    IN  [r EXCEPT !.pipes = [p \in DOMAIN r.pipes |->
                                IF p \in files THEN flush_pipe(r.pipes[p]).pipe
                                ELSE r.pipes[p]]]

\* Runtime::run counts its steps in a u64 and flushes every 1 << 10 of them
FlushEvery == 1024

requeue_always_back(schedule, next, event) ==
    IF event = "Dequeue" THEN schedule ELSE Append(schedule, next)

\* Runtime::run, "requeue"
requeue(schedule, next, event) ==
    IF event = "Dequeue" THEN schedule
    ELSE IF event \in {"Yield", "Write"} THEN Append(schedule, next)
    ELSE <<next>> \o schedule

monitor_of_any_port(u, id, port) ==
    IF \E k \in DOMAIN u.monitors : k[1] = id
    THEN {CHOOSE k \in DOMAIN u.monitors : k[1] = id}
    ELSE {}

\* Runtime::run, "event side effect": the monitor a Write(port) of elf id sets off
monitor_of(u, id, port) == {<<id, port>>} \cap DOMAIN u.monitors

start_handler_at_back(u, key, santa) ==
    LET mon == u.monitors[key]
    IN  [u EXCEPT !.santa_ip = mon.line + 1,
                  !.schedule = Append(@, TurnSanta(mon.line + 1, santa[mon.line + 1].n))]

\* Runtime::run, Some(Event::Write(port)) with a monitor on the key
start_handler(u, key, santa) ==
    LET mon == u.monitors[key]
    IN  [u EXCEPT !.santa_ip = mon.line + 1,
                  !.schedule = <<TurnSanta(mon.line + 1, santa[mon.line + 1].n)>> \o @]

\* Runtime::run, `RunCommand::Step(n) if steps as usize >= n`
stepped(count, n) == count >= n

(***************************************************************************)
(* Runtime::run.  RT_Call is the caller entering run with a command; every *)
(* RT_Step* is one iteration of its loop; RT_Done is the `else` of         *)
(* pop_front.  run.phase is "loop" inside the loop, "idle" outside of run  *)
(* and "panic" once a panic! / todo! / assert! / unwrap has unwound.       *)
(*                                                                         *)
(* History (not program state): log has one entry per iteration that       *)
(* returned from its step.                                                 *)
(*   call      the call of run the iteration belongs to                    *)
(*   turn      the turn popped from the schedule                           *)
(*   ip, code  the line / instruction fetched and its index                *)
(*   room      the room of the elf, -1 for the director                    *)
(*   stack, res   the elf's stack, the director's results before the step  *)
(*   ip2, stack2, res2   the same after the step                           *)
(*   event, port, err, arg   what the step returned                        *)
(*   read      the answer of try_read to In / Receive ("None": no pipe)    *)
(*   handler   the Monitor line whose handler turn was started, or -1      *)
(*   mons      Runtime::monitors before the step                           *)
(*   before, after   the schedule before pop_front and after the iteration *)
(*   known     the ids in Runtime::elves after the iteration               *)
(***************************************************************************)
MaxSchedSteps == 22
MaxCalls == 2
\* number of times the caller resets the runtime between two calls of run
MaxResets == 1
MaxStepArg == 2

Cmd(kind, n) == [kind |-> kind, n |-> n]
Commands == {Cmd("RunToEnd", 0), Cmd("Continue", 0)} \cup {Cmd("Step", n) : n \in 0..MaxStepArg}

known_ids(r) == {i \in 0..(Len(r.elves) - 1) : r.elves[i + 1].alive}

\* what the step of `next` returns, in one shape for both kinds of turn
step_turn(r, u, next, un) ==
    IF next.kind = "Santa"
    THEN LET x == step_santa(r, u, un.santa)
         IN  ElfResult(x.rt, x.run, x.event, 0, "", 0)
    ELSE step_elf(r, u, next.id, un.rooms)

\* the line or instruction the turn is about to fetch
turn_code(r, u, next, un) ==
    IF next.kind = "Santa"
    THEN IF u.santa_ip < Len(un.santa) THEN un.santa[u.santa_ip + 1]
         ELSE MkSanta("-", 0, 0, 0, 0, 0, <<>>)
    ELSE LET c == fetch(un.rooms[u.cpu[next.id + 1].room + 1], u.cpu[next.id + 1].ip)
         IN  MkSanta(c.op, c.a, 0, 0, 0, 0, <<>>)

turn_read(r, u, next, un) ==
    LET c == turn_code(r, u, next, un)
    IN  IF next.kind = "Elf" /\ c.op = "In"
        THEN LET p == r.elves[next.id + 1].inputs[c.a]
             IN  IF p = 0 THEN "None" ELSE try_read(r.pipes[p]).res
        ELSE IF next.kind = "Santa" /\ c.op = "Receive"
        THEN try_read(r.pipes[u.monitors[<<u.santa_result[c.a + 1], c.ap>>].pipe]).res
        ELSE ""

\* Runtime::run, Err(ecode): the Error it builds
Error_of(u, next, code, arg) ==
    IF next.kind = "Santa"
    THEN [culprit |-> next, ip |-> next.ip, room |-> -1, code |-> code, arg |-> arg,
          stack |-> <<>>]
    ELSE [culprit |-> next, ip |-> u.cpu[next.id + 1].ip, room |-> u.cpu[next.id + 1].room,
          code |-> code, arg |-> arg, stack |-> u.cpu[next.id + 1].stack]

reset_keeps_state(r, u, un) == [rt |-> r, run |-> [u EXCEPT !.phase = "idle"]]

\* Runtime::reset: *self = Self::new(self.unit)
reset(r, u, un) == [rt |-> Runtime_new, run |-> Sched_new(un.santa, "Std")]

\* the history entry of one iteration: x is what the step returned, r2 and u2
\* the runtime the iteration leaves behind
SchedEntry(next, x, r2, u2, handler) ==
    LET isElf == next.kind = "Elf"
        u0 == [run EXCEPT !.schedule = Tail(@)]
    IN  [call |-> run.calls, life |-> run.resets, turn |-> next,
         ip |-> IF isElf THEN run.cpu[next.id + 1].ip ELSE run.santa_ip,
         code |-> turn_code(rt, u0, next, unit),
         stack |-> IF isElf THEN run.cpu[next.id + 1].stack ELSE <<>>,
         res |-> run.santa_result,
         ip2 |-> IF x.err # "" THEN 0
                 ELSE IF isElf THEN x.run.cpu[next.id + 1].ip ELSE x.run.santa_ip,
         stack2 |-> IF isElf /\ x.err = "" THEN x.run.cpu[next.id + 1].stack ELSE <<>>,
         res2 |-> IF x.err # "" THEN <<>> ELSE x.run.santa_result,
         event |-> x.event, port |-> x.port, err |-> x.err, arg |-> x.arg,
         read |-> turn_read(rt, u0, next, unit),
         handler |-> handler,
         room |-> IF isElf THEN run.cpu[next.id + 1].room ELSE -1,
         mons |-> run.monitors, mons2 |-> u2.monitors,
         before |-> run.schedule, after |-> u2.schedule,
         known |-> known_ids(r2)]

\* one iteration of the loop of Runtime::run, from pop_front on
RunIteration ==
    \E next \in {Head(run.schedule)} :
    \E x \in {step_turn(rt, [run EXCEPT !.schedule = Tail(@)], next, unit)} :
        IF x.rt.status = "panic"
        THEN /\ rt' = panicked(rt)
             /\ run' = [run EXCEPT !.phase = "panic"]
             /\ log' = log
        ELSE IF x.err # ""
        THEN \E z \in {reset(rt, run, unit)} :
                 /\ rt' = z.rt
                 /\ run' = [z.run EXCEPT !.cmd = run.cmd, !.steps = run.steps,
                                         !.calls = run.calls, !.resets = run.resets,
                                         !.result = [kind |-> "Err", n |-> 0,
                                                     error |-> Error_of(run, next, x.err,
                                                                        x.arg)]]
                 /\ log' = Append(log, SchedEntry(next, x, z.rt, z.run, -1))
        ELSE \E r1 \in {IF x.event = "Dequeue" /\ next.kind = "Elf"
                        THEN elves_remove(x.rt, next.id + 1) ELSE x.rt} :
             \E u1 \in {[x.run EXCEPT !.schedule = requeue(@, next, x.event)]} :
             \E mon \in {IF x.event = "Write" THEN monitor_of(u1, next.id, x.port)
                         ELSE {}} :
             \E u2 \in {IF mon = {} THEN u1
                        ELSE start_handler(u1, CHOOSE k \in mon : TRUE, unit.santa)} :
             \E count \in {run.steps + 1} :
             \E r2 \in {IF count % FlushEvery = 0 THEN flush_outs(r1) ELSE r1} :
             \E back \in {run.cmd.kind = "Step" /\ stepped(count, run.cmd.n)} :
                 /\ rt' = r2
                 /\ run' = [u2 EXCEPT !.steps = count,
                                      !.phase = IF back THEN "idle" ELSE "loop",
                                      !.result = IF back
                                                 THEN [kind |-> "Stepped", n |-> count,
                                                       error |-> ErrorNone]
                                                 ELSE @]
                 /\ log' = Append(log, SchedEntry(next, x, r2, u2,
                                               IF mon = {} THEN -1
                                               ELSE u1.monitors[CHOOSE k \in mon : TRUE].line))

RT_Call ==
    /\ run.phase = "idle"
    /\ run.calls < MaxCalls
    /\ \E cmd \in Commands :
          run' = [run EXCEPT !.phase = "loop", !.cmd = cmd, !.steps = 0,
                             !.calls = @ + 1, !.result = ResultNone]
    /\ UNCHANGED <<planVars, runVars, pipeVars, unit, log, calllog, linkVars>>

\* the caller's Runtime::reset between two calls of run: every field of the
\* runtime is as Runtime::new builds it; what the caller holds (the value run
\* returned last, the number of its calls) is the caller's still
RT_Reset ==
    /\ run.phase = "idle"
    /\ run.resets < MaxResets
    /\ \E z \in {reset(rt, run, unit)} :
          /\ rt' = z.rt
          /\ run' = [z.run EXCEPT !.cmd = run.cmd, !.steps = run.steps,
                                  !.calls = run.calls, !.resets = run.resets + 1,
                                  !.result = run.result]
    /\ UNCHANGED <<planVars, runVars, hist, ops, unit, log, calllog, linkVars>>

RT_StepSanta ==
    /\ run.phase = "loop"
    /\ Len(log) < MaxSchedSteps
    /\ run.schedule # <<>>
    /\ Head(run.schedule).kind = "Santa"
    /\ RunIteration
    /\ UNCHANGED <<planVars, runVars, hist, ops, unit, calllog, linkVars>>

RT_StepElf ==
    /\ run.phase = "loop"
    /\ Len(log) < MaxSchedSteps
    /\ run.schedule # <<>>
    /\ Head(run.schedule).kind = "Elf"
    /\ RunIteration
    /\ UNCHANGED <<planVars, runVars, hist, ops, unit, calllog, linkVars>>

\* `let Some(mut next) = self.schedule.pop_front() else { break Ok(RunOk::Done) }`
\* and the flush_outs after the loop
RT_Done ==
    /\ run.phase = "loop"
    /\ run.schedule = <<>>
    /\ rt' = flush_outs(rt)
    /\ run' = [run EXCEPT !.phase = "idle",
                          !.result = [kind |-> "Done", n |-> 0, error |-> ErrorNone]]
    /\ UNCHANGED <<planVars, runVars, hist, ops, unit, log, calllog, linkVars>>

(***************************************************************************)
(* The units that are run.  A unit is [rooms, santa]: rooms[r + 1] is the  *)
(* elf_program of room r, santa the director's lines.                      *)
(***************************************************************************)
MkUnit(rooms, santa) == [rooms |-> rooms, santa |-> santa]

\* an elf echoes a file to a monitored port; the handler block ends the program
UnitEcho ==
    MkUnit(<< <<In(0), Out(0), JmpPtr(0)>> >>,
           <<SetupElf(0, <<>>), OpenRead(<<7, 8>>, 0, 0),
             Monitor(0, 0, 3), Receive(0, 0), Deliver(3)>>)

\* a handler block followed by one more line; the second elf divides by zero
UnitAfter ==
    MkUnit(<< <<Push(7), Out(0)>>, <<Push(1), Push(0), Arith("Div")>> >>,
           <<SetupElf(0, <<>>), Monitor(0, 0, 3), Receive(0, 0), Deliver(2),
             SetupElf(1, <<>>)>>)

\* a handler with two Receive lines and a Receive of the main pass
UnitTwoRecv ==
    MkUnit(<< <<Push(1), Out(0), Push(2), Out(0)>> >>,
           <<SetupElf(0, <<>>), Monitor(0, 0, 4), Receive(0, 0), Receive(0, 0),
             Deliver(3), Receive(0, 0)>>)

\* port 1 is written to a file before its monitor is registered
UnitPre ==
    MkUnit(<< <<Push(1), Out(1), Push(2), Out(0), Push(3), Out(1)>> >>,
           <<SetupElf(0, <<>>), OpenWrite(0, 1), Monitor(0, 0, 1), Receive(0, 0),
             Monitor(0, 1, 2), Receive(0, 1)>>)

\* a reader and a writer, connected; the reader ends at an unconnected port
UnitConnect ==
    MkUnit(<< <<In(0), Write(0), Read(0), StackLen, In(1)>>, <<Push(3), Out(0), Hammock>> >>,
           <<SetupElf(0, <<>>), SetupElf(1, <<>>), Connect(1, 0, 0, 0)>>)

\* a reader that has to wait for its writer, and a director that has to wait
\* at a Receive of its main pass
UnitYield ==
    MkUnit(<< <<In(0), In(1)>>, <<Push(3), Out(0), Hammock>> >>,
           <<SetupElf(0, <<>>), SetupElf(1, <<>>), Connect(1, 0, 0, 0),
             Monitor(1, 0, 2), Receive(1, 0), Receive(1, 0)>>)

\* an elf whose output port 0 is connected to its own input port 0
UnitLoop ==
    MkUnit(<< <<Push(5), Out(0), In(0), Hammock>> >>,
           <<SetupElf(0, <<>>), Connect(0, 0, 0, 0)>>)

\* an elf that writes to a port nobody holds and then meets a raw jump
UnitLoose ==
    MkUnit(<< <<Label, Push(1), Out(0), Nop, Jmp>> >>,
           <<SetupElf(0, <<9>>)>>)

\* an elf that meets one of the two raw conditional jumps
RawUnits ==
    {MkUnit(<< <<Label, Push(1), j>> >>, <<SetupElf(0, <<9>>)>>) : j \in {IfPos, IfNz}}

\* the negative values an elf sends to the director: the one that becomes
\* usize::MAX, and one of the far end of the integers at hand
NegativeVals == {-1, -2147483647}

\* an elf that sends a negative value to the director, who delivers what it
\* received
UnitNegativeOf(v) ==
    MkUnit(<< <<Push(v), Out(0)>> >>,
           <<SetupElf(0, <<>>), Monitor(0, 0, 3), Receive(0, 0), Deliver(2)>>)

\* the same elf beside a second one, and a director that takes what it
\* received for an elf id, at OpenWrite and at Monitor
UnitNegativeIdOf(v) ==
    MkUnit(<< <<Push(v), Out(0)>>, <<Nop, Push(66), Out(0)>> >>,
           <<SetupElf(0, <<>>), SetupElf(1, <<>>), Monitor(0, 0, 3), Receive(0, 0),
             OpenWrite(3, 0)>>)
UnitNegativeMonitorOf(v) ==
    MkUnit(<< <<Push(v), Out(0)>>, <<Nop, Push(66), Out(0)>> >>,
           <<SetupElf(0, <<>>), SetupElf(1, <<>>), Monitor(0, 0, 3), Receive(0, 0),
             Monitor(3, 0, 1), Deliver(3)>>)
NegativeUnits ==
    {UnitNegativeOf(v) : v \in NegativeVals}
        \cup {UnitNegativeIdOf(v) : v \in NegativeVals}
        \cup {UnitNegativeMonitorOf(v) : v \in NegativeVals}

\* one elf, one stack instruction, every depth from 0 to 3
StackOps == {"Dup", "Erase", "Tuck", "Swap"}
StackIdx == 0..2
StartStacks == {<<>>, <<4>>, <<4, 5>>, <<4, 5, 6>>}
StackUnits ==
    {MkUnit(<< <<MkInstr(op, "-", k), StackLen>> >>, <<SetupElf(0, st)>>) :
        op \in StackOps, k \in StackIdx, st \in StartStacks}

\* one elf, one conditional jump over a Nop, on an empty stack and on a
\* negative, a zero and a positive top
CondOps == {"IfPosPtr", "IfNzPtr", "IfEmptyPtr"}
CondStacks == {<<>>, <<4, -1>>, <<4, 0>>, <<4, 3>>}
CondUnits ==
    {MkUnit(<< <<MkInstr(op, "-", 2), Nop, StackLen>> >>, <<SetupElf(0, st)>>) :
        op \in CondOps, st \in CondStacks}

\* UnitEcho for every content of the file: up to MaxBytes characters, the
\* last of CharVals a scalar value that is no byte
MaxBytes == 2
CharVals == {0, 255, 263}
RECURSIVE SeqsUpTo(_, _)
SeqsUpTo(S, n) ==
    IF n = 0 THEN {<<>>}
    ELSE LET shorter == SeqsUpTo(S, n - 1)
         IN  shorter \cup {Append(q, x) : q \in shorter, x \in S}
EchoUnit(content) ==
    MkUnit(<< <<In(0), Out(0), JmpPtr(0)>> >>,
           <<SetupElf(0, <<>>), OpenRead(content, 0, 0),
             Monitor(0, 0, 3), Receive(0, 0), Deliver(3)>>)
EchoUnits == {EchoUnit(c) : c \in SeqsUpTo(CharVals, MaxBytes)}

\* one elf that divides or takes a remainder, by zero or by two
DivOps == {"Div", "Mod"}
Divisors == {0, 2}
DivUnits ==
    {MkUnit(<< <<Arith(f), StackLen>> >>, <<SetupElf(0, <<6, d>>)>>) :
        f \in DivOps, d \in Divisors}
    \cup {MkUnit(<< <<ArithC(f, d), StackLen>> >>, <<SetupElf(0, <<6>>)>>) :
        f \in DivOps, d \in Divisors}

Units ==
    {UnitEcho, UnitAfter, UnitTwoRecv, UnitPre, UnitConnect, UnitYield, UnitLoop,
     UnitLoose}
        \cup NegativeUnits \cup RawUnits \cup StackUnits \cup DivUnits \cup EchoUnits \cup CondUnits

InitSched ==
    /\ plan = PlanSimple
    /\ pc = "sched"
    /\ emit = <<>>
    /\ visited = [s \in {} |-> 0]
    /\ bfs = <<>>
    /\ errors = <<>>
    /\ result = "-"
    /\ iterlog = <<>>
    /\ fromTile = <<>>
    /\ lin = RunIdle
    /\ walk = WalkIdle
    /\ sync = SyncIdle
    /\ steps = 0
    /\ rt = Runtime_new
    /\ hist = HistNew
    /\ ops = 0
    /\ unit \in Units
    /\ \E sink \in {"Std", "Buffer"} : run = Sched_new(unit.santa, sink)
    /\ log = <<>>
    /\ calllog = <<>>
    /\ link = LinkNone
    /\ lmap = LineMapNone

NextSched ==
    \/ RT_Call
    \/ RT_Reset
    \/ RT_StepSanta
    \/ RT_StepElf
    \/ RT_Done

SpecSched == InitSched /\ [][NextSched]_vars

LogIds == 1..Len(log)

\* entry i + 1 is the step the runtime took next after the step of entry i:
\* the caller did not reset the runtime in between
Continues(i) == i < Len(log) /\ log[i + 1].life = log[i].life

(***************************************************************************)
(* Claims about the schedule.  The entries of log that belong to the       *)
(* runtime as it is now are those after the last reset.                    *)
(***************************************************************************)
Max(S) == CHOOSE x \in S : \A y \in S : y <= x
EpochStart ==
    Max({0} \cup {i \in LogIds : log[i].err # "" \/ log[i].life < run.resets}) + 1
Epoch == EpochStart..Len(log)

\* the entries in which elf `id` emitted Write(port)
WritesOf(id, port) ==
    {i \in Epoch : /\ log[i].turn.kind = "Elf"
                   /\ log[i].turn.id = id
                   /\ log[i].event = "Write"
                   /\ log[i].port = port}

\* the entries in which a handler turn of the monitor registered at `line` was started
HandlersOf(line) == {i \in Epoch : log[i].handler = line}

\* the entry in which the Monitor line registered `key`
RegisteredAt(key) ==
    Max({0} \cup {i \in Epoch : /\ log[i].turn.kind = "Santa"
                                /\ log[i].code.op = "Monitor"
                                /\ <<log[i].res[log[i].code.a + 1], log[i].code.ap>> = key})

\* C11 as stated: for every (agent, port) with a registered monitor, the
\* handler turns started for that monitor are as many as the Write(port)
\* events the agent has emitted.
C11_HandlerPerWrite ==
    \A key \in DOMAIN run.monitors :
        Cardinality(HandlersOf(run.monitors[key].line))
            = Cardinality(WritesOf(key[1], key[2]))

\* C11 amended: for every (agent, port) with a registered monitor, the
\* handler turns started for that monitor are as many as the Write(port)
\* events the agent has emitted since the Monitor line registered it, and each
\* of them was started by the step that emitted the write.
C11_HandlerPerWriteSinceMonitor ==
    \A key \in DOMAIN run.monitors :
        HandlersOf(run.monitors[key].line)
            = {i \in WritesOf(key[1], key[2]) : i > RegisteredAt(key)}

\* a handler turn was started for a monitor by a write of its port, and the
\* same agent wrote another port as well
C11_Witness ==
    \E key \in DOMAIN run.monitors :
        /\ HandlersOf(run.monitors[key].line) # {}
        /\ \E i \in Epoch : /\ log[i].event = "Write"
                             /\ log[i].turn.id = key[1]
                             /\ log[i].port # key[2]

\* the entries in which an elf emitted Write(port) while a monitor was
\* registered on (elf, port)
MonitoredWrites ==
    {i \in LogIds : /\ log[i].turn.kind = "Elf"
                    /\ log[i].event = "Write"
                    /\ <<log[i].turn.id, log[i].port>> \in DOMAIN log[i].mons}
monitor_ip(i) == log[i].mons[<<log[i].turn.id, log[i].port>>].line

\* C12: when Out(port) emits Write(port) and a monitor is registered on
\* (agent, port), the schedule after the iteration is a fresh director turn at
\* monitor_ip + 1, then every turn that was queued, then the writer; and the
\* step executed next is that turn's, at line monitor_ip + 1.
C12_HandlerRunsNext ==
    \A i \in MonitoredWrites :
        /\ log[i].after # <<>>
        /\ Head(log[i].after).kind = "Santa"
        /\ Head(log[i].after).ip = monitor_ip(i) + 1
        /\ Tail(log[i].after) = Append(Tail(log[i].before), log[i].turn)
        /\ Continues(i) =>
              /\ log[i + 1].turn = Head(log[i].after)
              /\ log[i + 1].ip = monitor_ip(i) + 1

\* a monitored write made while another director turn was queued, and the
\* step after it
C12_Witness ==
    \E i \in MonitoredWrites :
        /\ Continues(i)
        /\ \E j \in 2..Len(log[i].before) : log[i].before[j].kind = "Santa"
        /\ log[i + 1].code.op = "Receive"

\* the director lines that were executed: the entries of director turns that
\* fetched a line
SantaLines == {i \in LogIds : log[i].turn.kind = "Santa" /\ log[i].code.op # "-"}

\* a director turn that a write started: it begins behind a Monitor line
IsHandlerTurn(t) ==
    /\ t.kind = "Santa"
    /\ t.ip > 0
    /\ unit.santa[t.ip].op = "Monitor"

\* the first line behind the block of the handler turn t
block_end(t) == (t.ip - 1) + unit.santa[t.ip].n

\* C13: a director turn executes only lines of its range: the main turn lines
\* below its until, a handler turn only the lines monitor_ip + 1 ..
\* monitor_ip + block_len - 1 of its block.
C13_BoundedTurn ==
    \A i \in SantaLines :
        IF IsHandlerTurn(log[i].turn)
        THEN log[i].turn.ip <= log[i].ip /\ log[i].ip < block_end(log[i].turn)
        ELSE log[i].turn.ip <= log[i].ip /\ log[i].ip < log[i].turn.until

\* the Monitor lines whose handler body holds line l
BlocksOf(l) ==
    {S \in 0..(Len(unit.santa) - 1) :
        /\ unit.santa[S + 1].op = "Monitor"
        /\ S < l
        /\ l < S + unit.santa[S + 1].n}

\* Runtime::monitors after the iteration of entry i
mons_after(i) == log[i].mons2

\* the Monitor line at S registers (agent, port) with handler pointer S and
\* leaves the director at S + block_len
MonitorRegisters(i) ==
    LET S == log[i].ip
        key == <<log[i].res[log[i].code.a + 1], log[i].code.ap>>
    IN  /\ key \in DOMAIN mons_after(i)
        /\ mons_after(i)[key].line = S
        /\ log[i].ip2 = S + log[i].code.n

\* C14: a Monitor line executed at S registers its monitor with handler
\* pointer S and moves the director to S + block_len; and a line of a handler
\* body is executed only by a turn that a write on the monitored port started.
C14_MainPassSkipsHandler ==
    /\ \A i \in SantaLines : log[i].code.op = "Monitor" => MonitorRegisters(i)
    /\ \A i \in SantaLines :
          \A S \in BlocksOf(log[i].ip) :
              IsHandlerTurn(log[i].turn) /\ log[i].turn.ip = S + 1

\* C15: a step without an event leaves its turn at the front of the schedule,
\* before every turn that was queued, and the next step is that turn's; a
\* step with Yield leaves its turn at the back, behind every queued turn.
C15_FrontOrBack ==
    \A i \in LogIds :
        /\ (log[i].err = "" /\ log[i].event = "") =>
              /\ log[i].after # <<>>
              /\ Head(log[i].after) = log[i].turn
              /\ IsPrefix(Tail(log[i].before), Tail(log[i].after))
              /\ Continues(i) => log[i + 1].turn = log[i].turn
        /\ log[i].event = "Yield" =>
              log[i].after = Append(Tail(log[i].before), log[i].turn)

\* an event-free step and a yielding step, each with other turns queued, and
\* the steps that followed them
C15_Witness ==
    /\ \E i \in LogIds : /\ log[i].err = "" /\ log[i].event = ""
                         /\ Len(log[i].before) >= 2
                         /\ Continues(i)
    /\ \E i \in LogIds : /\ log[i].event = "Yield"
                         /\ Len(log[i].before) >= 2
                         /\ Continues(i)
                         /\ log[i + 1].turn # log[i].turn

\* the turns the step m pushed to the back of the schedule
BackPushes(m) ==
    IF log[m].event \in {"Yield", "Write"} THEN 1
    ELSE IF log[m].turn.kind = "Santa" /\ log[m].code.op = "SetupElf" THEN 1
    ELSE 0

RECURSIVE ResumeFrom(_, _)
\* the step at which the turn that stands d places from the back of the
\* schedule after step m - 1 is popped again; 0 if the log ends or the
\* runtime is reset before that
ResumeFrom(m, d) ==
    IF m > Len(log) THEN 0
    ELSE IF Len(log[m].before) - 1 = d THEN m
    ELSE IF log[m].err # "" THEN 0
    ELSE ResumeFrom(m + 1, d + BackPushes(m))

\* a step returns Yield only for an elf at In whose pipe answers Empty and
\* for the director at Receive whose monitor pipe answers Empty, and always
\* then; the elf's ip and stack, the director's ip and line results are what
\* they were before the step
YieldOnlyOnEmpty ==
    \A i \in LogIds :
        /\ log[i].event = "Yield" =>
              /\ log[i].read = "Empty"
              /\ log[i].ip2 = log[i].ip
              /\ log[i].res2 = log[i].res
              /\ IF log[i].turn.kind = "Elf"
                 THEN log[i].code.op = "In" /\ log[i].stack2 = log[i].stack
                 ELSE log[i].code.op = "Receive"
        /\ log[i].read = "Empty" => log[i].event = "Yield"

\* the steps of this runtime that returned Yield
Yields == {i \in Epoch : log[i].event = "Yield"}

\* the step that pops the turn of the yielding step i again executes the
\* instruction that yielded: the same ip, and for an elf the same stack
Retried(i) ==
    LET j == ResumeFrom(i + 1, 0)
    IN  j # 0 =>
            /\ log[j].turn = log[i].turn
            /\ log[j].ip = log[i].ip
            /\ log[j].code = log[i].code
            /\ log[j].stack = log[i].stack2

\* C16: a step returns Yield only for an elf at In whose pipe answers Empty
\* and for the director at Receive whose monitor pipe answers Empty; ip,
\* stack and line results are then what they were before the step, and the
\* next turn of the participant retries the same instruction.
C16_YieldRetried ==
    /\ YieldOnlyOnEmpty
    /\ \A i \in Yields : Retried(i)

\* no reset between the entries i and j
SameRuntime(i, j) == log[i].life = log[j].life /\ \A k \in i..(j - 1) : log[k].err = ""

ElfSteps == {i \in LogIds : log[i].turn.kind = "Elf" /\ log[i].err = ""}

\* the step fetched Hammock (also past the end of its program) or an In whose
\* port is closed or has no pipe
Finishing(i) ==
    \/ log[i].code.op = "Hammock"
    \/ log[i].ip >= Len(unit.rooms[log[i].room + 1])
    \/ log[i].code.op = "In" /\ log[i].read \in {"Closed", "None"}

\* C17: an elf's step returns Dequeue exactly when it executes Hammock, is
\* past the end of its program, or executes In on a closed or unconnected
\* port; the elf is then gone from Runtime::elves, its turn is not in the
\* schedule, and no later step of that runtime is the elf's.
C17_FinishedForGood ==
    \A i \in ElfSteps :
        /\ log[i].event = "Dequeue" <=> Finishing(i)
        /\ log[i].event = "Dequeue" =>
              /\ log[i].turn.id \notin log[i].known
              /\ log[i].after = Tail(log[i].before)
              /\ \A k \in 1..Len(log[i].after) : log[i].after[k] # log[i].turn
              /\ \A j \in LogIds :
                    (i < j /\ SameRuntime(i, j)) => log[j].turn # log[i].turn

\* an elf finished at an In without a pipe while another elf was queued, and
\* that elf ran afterwards
C17_Witness ==
    \E i \in ElfSteps : \E j \in ElfSteps :
        /\ i < j /\ SameRuntime(i, j)
        /\ log[i].event = "Dequeue" /\ log[i].code.op = "In"
        /\ log[j].event = "Dequeue" /\ log[j].code.op = "Hammock"

\* a call of run has returned and no other was made since
Returned == run.phase = "idle" /\ run.result.kind # "-"

\* the iterations the last call of run went through without a fault
StepsOfCall == Cardinality({i \in LogIds : log[i].call = run.calls /\ log[i].err = ""})

\* C18: run(Step(n)) returns Stepped(n) after exactly n steps, or Done when
\* the schedule ran empty before n steps were made (or Err); run(RunToEnd)
\* returns Ok only as Done, with the schedule empty.
C18_StepCount ==
    Returned =>
        /\ run.cmd.kind = "Step" =>
              \/ /\ run.result.kind = "Stepped"
                 /\ run.result.n = run.cmd.n
                 /\ StepsOfCall = run.cmd.n
              \/ /\ run.result.kind = "Done"
                 /\ run.schedule = <<>>
                 /\ StepsOfCall < run.cmd.n
              \/ run.result.kind = "Err"
        /\ run.cmd.kind = "RunToEnd" =>
              \/ run.result.kind = "Done" /\ run.schedule = <<>>
              \/ run.result.kind = "Err"

\* the entries of steps that raised a fault
Faults == {i \in LogIds : log[i].err # ""}

\* the fields of a runtime that Runtime::new has just built for the unit
FreshRuntime ==
    /\ rt = Runtime_new
    /\ run.santa_ip = 0
    /\ run.santa_result = [l \in 1..Len(unit.santa) |-> 0]
    /\ run.next_elf_id = 0
    /\ run.schedule = <<TurnSanta(0, Len(unit.santa))>>
    /\ DOMAIN run.monitors = {}
    /\ run.cpu = <<>>
    /\ run.output = [kind |-> "Std", buf |-> <<>>]

\* C19: a step that raises a fault is the last step of its call of run; run
\* returns Err with the turn that was stepped, the ip of the instruction that
\* faulted and the stack as it was before that instruction; and the runtime
\* is then as Runtime::new builds it for the unit.
C19_FaultAbortsAndResets ==
    /\ \A i \in Faults : \A j \in LogIds : j > i => log[j].call # log[i].call
    /\ \A i \in Faults :
          (i = Len(log) /\ run.calls = log[i].call) =>
              /\ run.phase = "idle"
              /\ run.result.kind = "Err"
              /\ run.result.error.culprit = log[i].turn
              /\ run.result.error.ip = log[i].ip
              /\ run.result.error.stack = log[i].stack
              /\ run.result.error.code = log[i].err
              /\ run.result.error.arg = log[i].arg
              /\ log[i].turn.kind = "Elf" =>
                    /\ run.result.error.room = log[i].room
                    /\ fetch(unit.rooms[log[i].room + 1], run.result.error.ip).op
                          = log[i].code.op
              /\ FreshRuntime
    /\ run.result.kind = "Err" => Faults # {} /\ log[Len(log)].err # ""

\* the second elf divided by zero at ip 2 with 1 and 0 on its stack, after
\* the first elf, a monitor and a handler turn had been at work
C19_Witness ==
    /\ run.result.kind = "Err"
    /\ run.result.error.code = "DivisionByZero"
    /\ run.result.error.ip = 2
    /\ run.result.error.stack = <<1, 0>>
    /\ \E i \in LogIds : log[i].handler # -1

\* the steps that fetched Dup(k), Erase(k), Tuck(k) or Swap(k)
StackSteps == {i \in LogIds : log[i].turn.kind = "Elf" /\ log[i].code.op \in StackOps}

\* C20: Dup(k), Erase(k), Tuck(k) and Swap(k) raise InvalidIndex(k) exactly
\* when k is at least the depth of the stack, and raise nothing otherwise.
C20_InvalidIndexOfK ==
    \A i \in StackSteps :
        LET k == log[i].code.a
            depth == Len(log[i].stack)
        IN  /\ (log[i].err = "InvalidIndex" /\ log[i].arg = k) <=> k >= depth
            /\ k < depth => log[i].err = ""

\* the elf whose turn is at the front of the schedule inside the loop of run,
\* and the instruction its step will fetch
NextIsElf == run.phase = "loop" /\ run.schedule # <<>> /\ Head(run.schedule).kind = "Elf"
NextElf == run.cpu[Head(run.schedule).id + 1]
NextInstr == fetch(unit.rooms[NextElf.room + 1], NextElf.ip)

\* that instruction is a division or a remainder whose divisor is zero
ZeroDivisor ==
    /\ NextIsElf
    /\ NextInstr.f \in DivOps
    /\ \/ /\ NextInstr.op = "Arith"
          /\ Len(NextElf.stack) >= 2
          /\ NextElf.stack[Len(NextElf.stack)] = 0
       \/ /\ NextInstr.op = "ArithC"
          /\ Len(NextElf.stack) >= 1
          /\ NextInstr.a = 0

\* C21: the step of Arith(Div), Arith(Mod), ArithC(Div, 0) or ArithC(Mod, 0)
\* with a zero divisor makes run return Err(DivisionByZero), the operands
\* still on the stack the error records.
C21_DivisionByZero ==
    [][ZeroDivisor =>
          /\ run'.phase = "idle"
          /\ run'.result.kind = "Err"
          /\ run'.result.error.code = "DivisionByZero"
          /\ run'.result.error.stack = NextElf.stack]_vars

\* what the Deliver lines executed since entry i have appended, in order
RECURSIVE DeliveredFrom(_)
DeliveredFrom(i) ==
    IF i > Len(log) THEN <<>>
    ELSE IF log[i].turn.kind = "Santa" /\ log[i].code.op = "Deliver"
    THEN <<log[i].res[log[i].code.a + 1] % 256>> \o DeliveredFrom(i + 1)
    ELSE DeliveredFrom(i + 1)

\* the file the echo unit opens
EchoContent == unit.santa[2].data

NextIsSanta ==
    /\ run.phase = "loop"
    /\ run.schedule # <<>>
    /\ Head(run.schedule).kind = "Santa"
    /\ run.santa_ip < Len(unit.santa)
NextLine == unit.santa[run.santa_ip + 1]

\* that line is a Connect whose source and destination are the same elf
SelfConnect ==
    /\ NextIsSanta
    /\ NextLine.op = "Connect"
    /\ run.santa_result[NextLine.a + 1] = run.santa_result[NextLine.b + 1]
    /\ elf_known(rt, run.santa_result[NextLine.a + 1])

\* C23: a Connect whose source and destination are the same elf completes
\* without failure and leaves the elf with an output on the source port and
\* an input on the destination port.
C23_SelfLoop ==
    [][SelfConnect =>
          LET e == run.santa_result[NextLine.a + 1] + 1
          IN  /\ run'.phase # "panic"
              /\ rt'.status = "ok"
              /\ rt'.elves[e].outputs[NextLine.ap] # 0
              /\ rt'.elves[e].inputs[NextLine.bp] # 0]_vars

\* the director lines this runtime has executed to their end (a Receive that
\* yielded is taken up again and does not count)
LinesDone == {i \in SantaLines \cap Epoch : log[i].event # "Yield"}

\* the entries in which slot l of santa_result was written
WritesOfSlot(l) ==
    {i \in LinesDone : log[i].ip = l /\ log[i].code.op \in {"SetupElf", "Receive"}}

\* C24: during one run no director line is executed twice, and no slot of
\* santa_result is written twice.
C24_LineOnce ==
    /\ \A i \in LinesDone : \A j \in LinesDone : i # j => log[i].ip # log[j].ip
    /\ \A l \in 0..(Len(unit.santa) - 1) : Cardinality(WritesOfSlot(l)) <= 1

(***************************************************************************)
(* translate/mod.rs: translate and emit_todos, the linker of the director. *)
(*                                                                         *)
(* link.scode is the program emitted so far, link.ident is Identifiers     *)
(* (name -> value and the place of the defining token), link.open is the   *)
(* block_start of every call of emit_todos that has not returned yet (the  *)
(* last one is parent_monitor).  link.encl and link.hist are history: the  *)
(* blocks that were open when a line was pushed, and what every ToDo did.  *)
(***************************************************************************)
MaxTodos == 3

\* parse::Expr
Expr_Number(n) == [t |-> "Number", n |-> n, id |-> "-"]
Expr_Var(id) == [t |-> "Var", n |-> 0, id |-> id]

\* parse::Connection
Conn_Port(id, port) == [c |-> "Port", id |-> id, port |-> port]
Conn_File(name) == [c |-> "File", id |-> name, port |-> 0]
Conn_Std == [c |-> "Std", id |-> "-", port |-> 0]

\* parse::ToDo, one record shape for every variant; the todos of a Monitor
\* are the ToDos handled while its block is open
MkToDo(kind, name, shop, exprs, a, b, names) ==
    [kind |-> kind, name |-> name, shop |-> shop, exprs |-> exprs,
     a |-> a, b |-> b, vars |-> names]
ToDo_SetupElf(shop, name, stack) == MkToDo("SetupElf", name, shop, stack, None, None, <<>>)
ToDo_Connect(src, dst) == MkToDo("Connect", None, "-", <<>>, Some(src), Some(dst), <<>>)
ToDo_Monitor(id, port) == MkToDo("Monitor", None, "-", <<>>, Some(Conn_Port(id, port)), None, <<>>)
ToDo_Receive(src, names) == MkToDo("Receive", None, "-", <<>>, src, None, names)
ToDo_Send(dst, values) == MkToDo("Send", None, "-", values, dst, None, <<>>)
ToDo_Deliver(e) == MkToDo("Deliver", None, "-", <<e>>, None, None, <<>>)

\* SantaCode::Const
Const(n) == MkSanta("Const", n, 0, 0, 0, 0, <<>>)

\* translate::Error of the linker: x is the identifier the code carries and,
\* for IdentifierConflict, y is the place of the existing definition
NoError == MkError("-", "-", None)
UnknownIdentifier(id) == MkError("UnknownIdentifier", id, None)
IdentifierConflict(id, at) == MkError("IdentifierConflict", id, at)

\* Result<usize, Error>
Ok(v) == [ok |-> TRUE, v |-> v, e |-> NoError]
Err(e) == [ok |-> FALSE, v |-> 0, e |-> e]

\* Identifiers::define: the first binding stays, the second one is an Err
Identifiers_define(data, ident, at, value) ==
    IF ident \in DOMAIN data
    THEN [data |-> data, res |-> Err(IdentifierConflict(ident, data[ident].at))]
    ELSE [data |-> [k \in DOMAIN data \cup {ident} |->
                        IF k = ident THEN [v |-> value, at |-> at] ELSE data[k]],
          res |-> Ok(0)]

\* Identifiers::get
Identifiers_get(data, ident) ==
    IF ident \in DOMAIN data THEN Ok(data[ident].v) ELSE Err(UnknownIdentifier(ident))

recover_dropped(res, t, errs) == [v |-> IF res.ok THEN res.v ELSE t, errors |-> errs]

\* RecoverResult::recover
recover(res, t, errs) ==
    IF res.ok THEN [v |-> res.v, errors |-> errs]
    ELSE [v |-> t, errors |-> Append(errs, res.e)]

\* scode.push, with the blocks that are open at this moment
push(L, code) == [L EXCEPT !.scode = Append(@, code), !.encl = Append(@, L.open)]

\* identifiers.get(id).recover(0, errors)
lookup(L, id) ==
    LET r == recover(Identifiers_get(L.ident, id), 0, L.errors)
    IN  [L |-> [L EXCEPT !.errors = r.errors], v |-> r.v]

\* the line of a value: a Number is pushed as a Const line, a Var is looked up
expr_line(L, expr) ==
    IF expr.t = "Number"
    THEN [L |-> push(L, Const(expr.n)), v |-> Len(L.scode)]
    ELSE lookup(L, expr.id)

RECURSIVE emit_stack(_, _, _)
\* emit_todos, SetupElf: `for expr in stack`
emit_stack(L, stack, lines) ==
    IF stack = <<>> THEN [L |-> L, lines |-> lines]
    ELSE LET x == expr_line(L, Head(stack))
         IN  emit_stack(x.L, Tail(stack), Append(lines, x.v))

\* emit_todos, SetupElf: the result of define is not used
emit_SetupElf(L, td) ==
    LET L1 == IF td.name # None
              THEN [L EXCEPT !.ident =
                       Identifiers_define(@, td.name[1], <<L.todos, 1>>, Len(L.scode)).data]
              ELSE L
        s == emit_stack(L1, td.exprs, <<>>)
        room == lookup(s.L, td.shop)
    IN  push(room.L, SetupElf(room.v, s.lines))

\* emit_todos, Connect; FALSE where the code reaches todo!
Connect_known(td) ==
    \/ td.a[1].c = "Port" /\ td.b[1].c = "Port"
    \/ td.a[1].c = "File" /\ td.b[1].c = "Port"
    \/ td.a[1].c = "Port" /\ td.b[1].c = "File"

emit_Connect(L, td) ==
    LET src == td.a[1]
        dst == td.b[1]
    IN  IF src.c = "Port" /\ dst.c = "Port"
        THEN LET s == lookup(L, src.id)
                 d == lookup(s.L, dst.id)
             IN  push(d.L, Connect(s.v, src.port, d.v, dst.port))
        ELSE IF src.c = "File"
        THEN LET d == lookup(L, dst.id)
             IN  push(d.L, OpenRead(src.id, d.v, dst.port))
        ELSE LET s == lookup(L, src.id)
             IN  push(s.L, OpenWrite(s.v, src.port))

\* emit_todos, Monitor, up to the recursive call
emit_Monitor(L, td) ==
    LET elfid == lookup(L, td.a[1].id)
        bstart == Len(elfid.L.scode)
        L1 == push(elfid.L, Monitor(elfid.v, td.a[1].port, 0))
    IN  [L1 EXCEPT !.open = Append(@, bstart)]

Monitor_block_len_body(bstart, bend) == bend - bstart - 1

\* emit_todos, Monitor: `block_len: bend - bstart`
Monitor_block_len(bstart, bend) == bend - bstart

\* emit_todos, Monitor, after the recursive call has returned
emit_Monitor_end(L) ==
    LET bstart == L.open[Len(L.open)]
        bend == Len(L.scode)
        old == L.scode[bstart + 1]
    IN  [L EXCEPT !.scode[bstart + 1] =
                      Monitor(old.a, old.ap, Monitor_block_len(bstart, bend)),
                  !.open = SubSeq(@, 1, Len(@) - 1)]

parent_monitor_outermost(L) == IF L.open = <<>> THEN None ELSE Some(L.open[1])

\* emit_todos: the `parent_monitor` argument, Some(block_start) of the
\* Monitor whose list is being emitted
parent_monitor(L) == IF L.open = <<>> THEN None ELSE Some(L.open[Len(L.open)])

\* emit_todos, Receive and Send: FALSE where the code reaches todo!
port_known(L, td) == td.a # None \/ parent_monitor(L) # None

\* emit_todos, Receive and Send: `let port = match (src, parent_monitor)`
port_of(L, td) ==
    IF td.a # None
    THEN LET e == lookup(L, td.a[1].id)
         IN  [L |-> e.L, id |-> e.v, port |-> td.a[1].port]
    ELSE LET par == L.scode[parent_monitor(L)[1] + 1]
         IN  [L |-> L, id |-> par.a, port |-> par.ap]

RECURSIVE emit_vars(_, _, _, _)
\* emit_todos, Receive: `for v in vars`
emit_vars(L, port, names, k) ==
    IF names = <<>> THEN L
    ELSE LET d == Identifiers_define(L.ident, Head(names), <<L.todos, k>>, Len(L.scode))
             r == recover(d.res, 0, L.errors)
             L1 == [L EXCEPT !.ident = d.data, !.errors = r.errors]
         IN  emit_vars(push(L1, Receive(port.id, port.port)), port, Tail(names), k + 1)

emit_Receive(L, td) ==
    LET port == port_of(L, td) IN emit_vars(port.L, port, td.vars, 1)

RECURSIVE emit_values(_, _, _)
\* emit_todos, Send: `for v in values`
emit_values(L, port, values) ==
    IF values = <<>> THEN L
    ELSE LET ip == expr_line(L, Head(values))
         IN  emit_values(push(ip.L, Send(port.id, port.port, ip.v)), port, Tail(values))

emit_Send(L, td) ==
    LET port == port_of(L, td) IN emit_values(port.L, port, td.exprs)

\* emit_todos, Deliver
emit_Deliver(L, td) ==
    LET ip == expr_line(L, td.exprs[1]) IN push(ip.L, Deliver(ip.v))

\* the director lines the linker is given: a workshop "shop", an agent "a",
\* the Receive variable "x" and a name "u" that nothing defines
Stacks == {<<>>, <<Expr_Number(5)>>, <<Expr_Var("x")>>}
SetupElfs ==
    {ToDo_SetupElf("shop", None, <<>>)}
        \cup {ToDo_SetupElf("shop", Some("a"), s) : s \in Stacks}
AgentRefs == {"a", "u"}
Connects ==
    {ToDo_Connect(Conn_Port(p[1], 1), Conn_Port(p[2], 2)) :
        p \in {<<"a", "a">>, <<"u", "u">>}}
    \cup {ToDo_Connect(Conn_File("in"), Conn_Port("a", 2)),
          ToDo_Connect(Conn_Port("a", 1), Conn_File("out")),
          ToDo_Connect(Conn_Std, Conn_Port("a", 2))}
Monitors == {ToDo_Monitor("a", 1), ToDo_Monitor("u", 3)}
PortOpts == {None, Some(Conn_Port("a", 2))}
Receives ==
    {ToDo_Receive(src, <<"x">>) : src \in PortOpts} \cup {ToDo_Receive(None, <<"x", "a">>)}
Sends == {ToDo_Send(dst, <<Expr_Var("x"), Expr_Number(5)>>) : dst \in PortOpts}
Delivers == {ToDo_Deliver(e) : e \in {Expr_Number(5), Expr_Var("x")}}

\* what read_into_unit leaves in `errors`
ReadErrors ==
    {<<>>, <<MkError("Io", "-", None)>>, <<MkError("Parse", "-", None)>>,
     <<MkError("Parse", "-", None), MkError("DuplicateShop", "shop", None)>>}

\* what elf::translate_plan returns for a floorplan and what it pushes to
\* `errors`: a room, a room and a diagnostic of a tile, or no room
PlanClean == [room |-> TRUE, errors |-> <<>>]
PlanWall == [room |-> TRUE, errors |-> <<MkError("ElfWallHit", "shop", None)>>]
PlanNoStart == [room |-> FALSE, errors |-> <<MkError("MissingElfStart", "shop", None)>>]

\* the workshop "shop" that translate is given: the number of its floorplan
\* blocks and the floorplan that is the first of them
Workshop(blocks, first) == [blocks |-> blocks, plan |-> first]
Workshops ==
    {Workshop(0, PlanClean), Workshop(1, PlanClean), Workshop(2, PlanClean),
     Workshop(1, PlanWall), Workshop(1, PlanNoStart)}

\* translate: the body of `for (sh_name, sh) in unit.workshops`.  The result
\* of identifiers.define is dropped.
translate_workshop(L, sh_name, sh) ==
    IF sh.blocks = 0
    THEN [L EXCEPT !.errors = Append(@, MkError("MissingPlan", sh_name, None))]
    ELSE LET multiple == IF sh.blocks > 1
                         THEN Append(L.errors, MkError("MultiplePlans", sh_name, None))
                         ELSE L.errors
             errs == multiple \o sh.plan.errors
         IN  IF sh.plan.room
             THEN [L EXCEPT !.errors = errs, !.rooms = @ + 1,
                            !.ident = Identifiers_define(@, sh_name, <<0, 1>>, L.rooms).data]
             ELSE [L EXCEPT !.errors = errs]

Unit_of(rooms, santa) == [kind |-> "Ok", errors |-> <<>>, santa |-> santa, rooms |-> rooms]
Err_of(errs) == [kind |-> "Err", errors |-> errs, santa |-> <<>>, rooms |-> 0]

translate_return_ok(errs, rooms, santa) == Unit_of(rooms, santa)

\* translate: `match errors.is_empty()`
translate_return(errs, rooms, santa) ==
    IF errs = <<>> THEN Unit_of(rooms, santa) ELSE Err_of(errs)

Snap(L) == [scode |-> L.scode, ident |-> L.ident, errors |-> L.errors, open |-> L.open]

\* history: the ToDo that was handled, the linker before it and after it
handled(L0, td, L1) ==
    [L1 EXCEPT !.hist = Append(@, [td |-> td, before |-> Snap(L0), after |-> Snap(L1)])]

\* translate: read_into_unit, and the return when it left errors
TR_Read ==
    /\ pc = "link"
    /\ link.phase = "read"
    /\ \E errs \in ReadErrors :
        link' = IF errs # <<>>
                THEN [link EXCEPT !.errors = errs, !.phase = "done", !.ret = Err_of(errs)]
                ELSE [link EXCEPT !.phase = "shops"]
    /\ UNCHANGED <<planVars, runVars, pipeVars, schedVars, lmap>>

\* translate: `for (sh_name, sh) in unit.workshops`
TR_Workshops ==
    /\ pc = "link"
    /\ link.phase = "shops"
    /\ \E sh \in Workshops : \E L \in {translate_workshop(link, "shop", sh)} :
        link' = [L EXCEPT !.phase = "emit"]
    /\ UNCHANGED <<planVars, runVars, pipeVars, schedVars, lmap>>

\* emit_todos: the next ToDo of the list, by its kind
Emitting == pc = "link" /\ link.phase = "emit" /\ link.todos < MaxTodos
NextToDo == [link EXCEPT !.todos = @ + 1]

LK_SetupElf ==
    /\ Emitting
    /\ \E td \in SetupElfs : \E L \in {emit_SetupElf(NextToDo, td)} :
        link' = handled(NextToDo, td, L)
    /\ UNCHANGED <<planVars, runVars, pipeVars, schedVars, lmap>>

LK_Connect ==
    /\ Emitting
    /\ \E td \in Connects :
        IF Connect_known(td)
        THEN \E L \in {emit_Connect(NextToDo, td)} : link' = handled(NextToDo, td, L)
        ELSE link' = [NextToDo EXCEPT !.phase = "panic"]
    /\ UNCHANGED <<planVars, runVars, pipeVars, schedVars, lmap>>

LK_Monitor ==
    /\ Emitting
    /\ \E td \in Monitors : \E L \in {emit_Monitor(NextToDo, td)} :
        link' = handled(NextToDo, td, L)
    /\ UNCHANGED <<planVars, runVars, pipeVars, schedVars, lmap>>

\* emit_todos: the list of a Monitor is at its end, the block is patched
LK_MonitorEnd ==
    /\ pc = "link"
    /\ link.phase = "emit"
    /\ link.open # <<>>
    /\ link' = emit_Monitor_end(link)
    /\ UNCHANGED <<planVars, runVars, pipeVars, schedVars, lmap>>

LK_Receive ==
    /\ Emitting
    /\ \E td \in Receives :
        IF port_known(NextToDo, td)
        THEN \E L \in {emit_Receive(NextToDo, td)} : link' = handled(NextToDo, td, L)
        ELSE link' = [NextToDo EXCEPT !.phase = "panic"]
    /\ UNCHANGED <<planVars, runVars, pipeVars, schedVars, lmap>>

LK_Send ==
    /\ Emitting
    /\ \E td \in Sends :
        IF port_known(NextToDo, td)
        THEN \E L \in {emit_Send(NextToDo, td)} : link' = handled(NextToDo, td, L)
        ELSE link' = [NextToDo EXCEPT !.phase = "panic"]
    /\ UNCHANGED <<planVars, runVars, pipeVars, schedVars, lmap>>

LK_Deliver ==
    /\ Emitting
    /\ \E td \in Delivers : \E L \in {emit_Deliver(NextToDo, td)} :
        link' = handled(NextToDo, td, L)
    /\ UNCHANGED <<planVars, runVars, pipeVars, schedVars, lmap>>

\* translate: the outer emit_todos has returned
TR_Return ==
    /\ pc = "link"
    /\ link.phase = "emit"
    /\ link.open = <<>>
    /\ link' = [link EXCEPT !.phase = "done",
                            !.ret = translate_return(link.errors, link.rooms, link.scode)]
    /\ UNCHANGED <<planVars, runVars, pipeVars, schedVars, lmap>>

InitLink ==
    /\ plan = PlanSimple
    /\ pc = "link"
    /\ emit = <<>>
    /\ visited = [s \in {} |-> 0]
    /\ bfs = <<>>
    /\ errors = <<>>
    /\ result = "-"
    /\ iterlog = <<>>
    /\ fromTile = <<>>
    /\ lin = RunIdle
    /\ walk = WalkIdle
    /\ sync = SyncIdle
    /\ steps = 0
    /\ rt = Runtime_new
    /\ hist = HistNew
    /\ ops = 0
    /\ unit = UnitNone
    /\ run = SchedNone
    /\ log = <<>>
    /\ calllog = <<>>
    /\ link = [LinkNone EXCEPT !.phase = "read"]
    /\ lmap = LineMapNone

NextLink ==
    \/ TR_Read
    \/ TR_Workshops
    \/ LK_SetupElf
    \/ LK_Connect
    \/ LK_Monitor
    \/ LK_MonitorEnd
    \/ LK_Receive
    \/ LK_Send
    \/ LK_Deliver
    \/ TR_Return

SpecLink == InitLink /\ [][NextLink]_vars


(***************************************************************************)
(* Claims about the linker.  Lines are counted from 0, as in the code.     *)
(***************************************************************************)
LinkLines == 0..(Len(link.scode) - 1)
LineAt(i) == link.scode[i + 1]
OpenBlocks == {link.open[k] : k \in DOMAIN link.open}

\* the Monitor lines whose block the linker has finished
MonitorLines == {s \in LinkLines : LineAt(s).op = "Monitor" /\ s \notin OpenBlocks}

\* the lines pushed while the block of the Monitor line s was open
BodyOf(s) == {j \in LinkLines : \E k \in DOMAIN link.encl[j + 1] : link.encl[j + 1][k] = s}
LastOf(s) == Max({s} \cup BodyOf(s))
BlockOf(s) == s..(s + LineAt(s).n - 1)

\* C25: the block_len of every finished Monitor line s counts the lines
\* from s through the last line of its body, so it is at least 1 and the
\* block ends inside the program; two blocks are disjoint or nested
C25_MonitorBlocks ==
    /\ \A s \in MonitorLines :
        /\ LineAt(s).n = LastOf(s) - s + 1
        /\ LineAt(s).n >= 1
        /\ s + LineAt(s).n <= Len(link.scode)
    /\ \A s, t \in MonitorLines :
        s < t => \/ BlockOf(s) \cap BlockOf(t) = {}
                 \/ BlockOf(t) \subseteq (BlockOf(s) \ {s})
    /\ link.phase = "done" => OpenBlocks = {}

C25_Witness ==
    /\ link.phase = "done"
    /\ \E s, t \in MonitorLines :
        /\ s < t
        /\ BlockOf(t) \subseteq (BlockOf(s) \ {s})
        /\ LineAt(t).n >= 2

\* the lines a director line names as agents, and those it names as values
AgentRefsOf(c) ==
    IF c.op = "Connect" THEN {c.a, c.b}
    ELSE IF c.op = "OpenRead" THEN {c.b}
    ELSE IF c.op \in {"OpenWrite", "Monitor", "Receive", "Send"} THEN {c.a}
    ELSE {}
ValueRefsOf(c) ==
    IF c.op = "Deliver" THEN {c.a}
    ELSE IF c.op = "Send" THEN {c.b}
    ELSE IF c.op = "SetupElf" THEN {c.data[k] : k \in DOMAIN c.data}
    ELSE {}

\* C26: in a program that translate returns as Ok, every agent reference
\* is the index of an earlier SetupElf line and every value reference is
\* the index of an earlier Const or Receive line
C26_ReferencesResolve ==
    link.ret.kind = "Ok" =>
        \A i \in 1..Len(link.ret.santa) :
            /\ \A r \in AgentRefsOf(link.ret.santa[i]) :
                r + 1 < i /\ link.ret.santa[r + 1].op = "SetupElf"
            /\ \A r \in ValueRefsOf(link.ret.santa[i]) :
                r + 1 < i /\ link.ret.santa[r + 1].op \in {"Const", "Receive"}

\* the identifiers a handled ToDo defines that were defined before it
DefinedBy(td) ==
    IF td.kind = "SetupElf" THEN {td.name[k] : k \in DOMAIN td.name}
    ELSE IF td.kind = "Receive" THEN {td.vars[k] : k \in DOMAIN td.vars}
    ELSE {}
Redefined(h) == DefinedBy(h.td) \cap DOMAIN h.before.ident
NewErrors(h) ==
    {h.after.errors[k] : k \in (Len(h.before.errors) + 1)..Len(h.after.errors)}

\* C27: a ToDo that defines an identifier which is defined already adds an
\* IdentifierConflict that names the earlier definition, the first binding
\* stays, and translate returns Err
C27_RedefinitionReported ==
    \A i \in DOMAIN link.hist :
        \A id \in Redefined(link.hist[i]) :
            /\ IdentifierConflict(id, link.hist[i].before.ident[id].at)
                   \in NewErrors(link.hist[i])
            /\ link.hist[i].after.ident[id] = link.hist[i].before.ident[id]
            /\ link.phase = "done" => link.ret.kind = "Err"

\* the identifiers a ToDo looks up, in the order of the lookups
VarIds(exprs) ==
    LET vs == SelectSeq(exprs, LAMBDA x : x.t = "Var")
    IN  [k \in 1..Len(vs) |-> vs[k].id]
PortIds(opt) ==
    IF opt # None /\ opt[1].c = "Port" THEN <<opt[1].id>> ELSE <<>>
LookupsOf(td) ==
    IF td.kind = "SetupElf" THEN VarIds(td.exprs) \o <<td.shop>>
    ELSE PortIds(td.a) \o PortIds(td.b) \o VarIds(td.exprs)

\* the names that can be looked up while the ToDo of h is handled
KnownTo(h) ==
    DOMAIN h.before.ident
        \cup (IF h.td.kind = "SetupElf" THEN {h.td.name[k] : k \in DOMAIN h.td.name} ELSE {})
Unresolved(h) ==
    LET known == KnownTo(h) IN SelectSeq(LookupsOf(h.td), LAMBDA id : id \notin known)
ValueOf(h, id) == IF id \in DOMAIN h.before.ident THEN h.before.ident[id].v ELSE 0

\* the lines the ToDo of h pushed, and the operands that its lookups gave
NewLines(h) == SubSeq(h.after.scode, Len(h.before.scode) + 1, Len(h.after.scode))
OperandsOf(h) ==
    LET new == NewLines(h)
        last == new[Len(new)]
        sends == SelectSeq(new, LAMBDA c : c.op = "Send")
        vs == {k \in DOMAIN h.td.exprs : h.td.exprs[k].t = "Var"}
    IN  IF h.td.kind = "SetupElf"
        THEN [k \in 1..Cardinality(vs) |->
                 last.data[CHOOSE j \in vs : Cardinality({i \in vs : i <= j}) = k]]
             \o <<last.a>>
        ELSE IF h.td.kind = "Connect"
        THEN IF last.op = "Connect" THEN <<last.a, last.b>>
             ELSE IF last.op = "OpenRead" THEN <<last.b>> ELSE <<last.a>>
        ELSE IF h.td.kind = "Monitor" THEN <<new[1].a>>
        ELSE IF h.td.kind = "Receive" THEN (IF h.td.a # None THEN <<last.a>> ELSE <<>>)
        ELSE IF h.td.kind = "Send"
        THEN (IF h.td.a # None THEN <<last.a>> ELSE <<>>)
             \o [k \in 1..Cardinality(vs) |->
                    sends[CHOOSE j \in vs : Cardinality({i \in vs : i <= j}) = k].b]
        ELSE IF h.td.exprs[1].t = "Var" THEN <<last.a>> ELSE <<>>

\* the number of lines a ToDo pushes
LinesOf(td) ==
    LET consts == Len(SelectSeq(td.exprs, LAMBDA x : x.t = "Number"))
    IN  IF td.kind = "SetupElf" THEN consts + 1
        ELSE IF td.kind = "Receive" THEN Len(td.vars)
        ELSE IF td.kind = "Send" THEN Len(td.exprs) + consts
        ELSE IF td.kind = "Deliver" THEN consts + 1
        ELSE 1

UnknownOf(errs) == SelectSeq(errs, LAMBDA x : x.code = "UnknownIdentifier")
NewErrorSeq(h) == SubSeq(h.after.errors, Len(h.before.errors) + 1, Len(h.after.errors))

\* C28: every lookup of an unknown identifier adds one UnknownIdentifier
\* and gives the operand 0, the ToDo pushes all its lines none the less,
\* and the Err that translate returns holds all these diagnostics
C28_UnknownIdentifiers ==
    \A i \in DOMAIN link.hist :
        LET h == link.hist[i]
            unresolved == Unresolved(h)
            lookups == LookupsOf(h.td)
        IN  /\ UnknownOf(NewErrorSeq(h))
                   = [k \in 1..Len(unresolved) |-> UnknownIdentifier(unresolved[k])]
            /\ Len(NewLines(h)) = LinesOf(h.td)
            /\ OperandsOf(h) = [k \in 1..Len(lookups) |-> ValueOf(h, lookups[k])]
            /\ link.phase = "done" /\ unresolved # <<>> =>
                   /\ link.ret.kind = "Err"
                   /\ IsPrefix(h.after.errors, link.ret.errors)

C28_Witness ==
    /\ link.phase = "done"
    /\ Len(link.hist) = MaxTodos
    /\ \E i, j \in DOMAIN link.hist :
        /\ i < j /\ j < Len(link.hist)
        /\ Len(Unresolved(link.hist[i])) = 2
        /\ Len(Unresolved(link.hist[j])) = 1
        /\ Len(UnknownOf(link.ret.errors)) = 3

\* C29: translate returns Ok, with the rooms and the program, exactly when
\* nothing was pushed to errors by reading, by the workshops or by the
\* linker; otherwise it returns Err with all of errors and no Unit
C29_OkIffNoDiagnostics ==
    link.phase = "done" =>
        /\ link.ret.kind \in {"Ok", "Err"}
        /\ link.ret.kind = "Ok" <=> link.errors = <<>>
        /\ link.ret.kind = "Ok" =>
               link.ret.santa = link.scode /\ link.ret.rooms = link.rooms
        /\ link.ret.kind = "Err" =>
               /\ link.ret.errors = link.errors
               /\ link.ret.santa = <<>> /\ link.ret.rooms = 0
               /\ \A i \in DOMAIN link.hist :
                      IsPrefix(link.hist[i].after.errors, link.ret.errors)

C29_Witness ==
    /\ link.phase = "done"
    /\ link.ret.kind = "Err"
    /\ link.scode # <<>>
    /\ link.rooms = 1
    /\ \E k \in DOMAIN link.ret.errors : link.ret.errors[k].code = "ElfWallHit"
    /\ \E i \in DOMAIN link.hist :
        /\ Len(Unresolved(link.hist[i])) = 0
        /\ \E e \in NewErrors(link.hist[i]) : e.code = "IdentifierConflict"

(***************************************************************************)
(* translate/loc.rs: LineMap.  A source is a sequence of bytes, of which   *)
(* only "\n" matters; positions are byte offsets counted from 0.           *)
(***************************************************************************)
MaxText == 4
Bytes == {"x", "\n"}
Texts == UNION {[1..n -> Bytes] : n \in 0..MaxText}

RECURSIVE newlines_from(_, _)
\* LineMap::new: `for (i, b) in source.bytes().enumerate()`
newlines_from(source, i) ==
    IF i >= Len(source) THEN <<>>
    ELSE (IF source[i + 1] = "\n" THEN <<i>> ELSE <<>>) \o newlines_from(source, i + 1)

LineMap_new(source) ==
    [phase |-> "built", source |-> source, newlines |-> newlines_from(source, 0),
     start |-> 0, sublen |-> 0, loc |-> LocNone]

\* <[usize]>::binary_search on the sorted newlines: Ok(idx) or Err(idx)
binary_search(v, x) ==
    IF \E k \in DOMAIN v : v[k] = x
    THEN Ok((CHOOSE k \in DOMAIN v : v[k] = x) - 1)
    ELSE [ok |-> FALSE, v |-> Cardinality({k \in DOMAIN v : v[k] < x}), e |-> NoError]

line_index_after(newlines, start) == Cardinality({k \in DOMAIN newlines : newlines[k] <= start})

\* slice_loc: `let line_index = match self.newlines.binary_search(&start)`
line_index(newlines, start) == binary_search(newlines, start).v

\* LineMap::slice_loc, for the subslice of sublen bytes at offset start
slice_loc(m, start, sublen) ==
    LET idx == line_index(m.newlines, start)
        col == IF idx = 0 THEN start ELSE start - m.newlines[idx] - 1
    IN  [line |-> idx + 1, col |-> col, len |-> sublen]

\* LineMap::new on a source text
LM_New ==
    /\ pc = "loc"
    /\ lmap.phase = "new"
    /\ \E source \in Texts : lmap' = LineMap_new(source)
    /\ UNCHANGED <<planVars, runVars, pipeVars, schedVars, link>>

\* LineMap::map_slice on a subslice of the source
LM_MapSlice ==
    /\ pc = "loc"
    /\ lmap.phase \in {"built", "sliced"}
    /\ \E start \in 0..Len(lmap.source) : \E sublen \in 0..(Len(lmap.source) - start) :
        lmap' = [lmap EXCEPT !.phase = "sliced", !.start = start, !.sublen = sublen,
                             !.loc = slice_loc(lmap, start, sublen)]
    /\ UNCHANGED <<planVars, runVars, pipeVars, schedVars, link>>

InitLoc ==
    /\ plan = PlanSimple
    /\ pc = "loc"
    /\ emit = <<>>
    /\ visited = [s \in {} |-> 0]
    /\ bfs = <<>>
    /\ errors = <<>>
    /\ result = "-"
    /\ iterlog = <<>>
    /\ fromTile = <<>>
    /\ lin = RunIdle
    /\ walk = WalkIdle
    /\ sync = SyncIdle
    /\ steps = 0
    /\ rt = Runtime_new
    /\ hist = HistNew
    /\ ops = 0
    /\ unit = UnitNone
    /\ run = SchedNone
    /\ log = <<>>
    /\ calllog = <<>>
    /\ link = LinkNone
    /\ lmap = [LineMapNone EXCEPT !.phase = "new"]

NextLoc ==
    \/ LM_New
    \/ LM_MapSlice

SpecLoc == InitLoc /\ [][NextLoc]_vars

\* the newline bytes in front of the byte at offset p
NewlinesBefore(p) == {k \in 0..(p - 1) : lmap.source[k + 1] = "\n"}
LineStart(p) == IF NewlinesBefore(p) = {} THEN 0 ELSE Max(NewlinesBefore(p)) + 1

\* C30: the Loc of a subslice has the line of its first byte counted from
\* 1, the offset of that byte from the start of its line, and the length
\* of the subslice; a newline byte is on the line that it ends
C30_SliceLoc ==
    lmap.phase = "sliced" =>
        /\ lmap.loc.line = 1 + Cardinality(NewlinesBefore(lmap.start))
        /\ lmap.loc.col = lmap.start - LineStart(lmap.start)
        /\ lmap.loc.len = lmap.sublen
        /\ \A k \in DOMAIN lmap.newlines :
               lmap.newlines[k] = lmap.start => lmap.loc.line = k

C30_Witness ==
    /\ lmap.phase = "sliced"
    /\ lmap.start < Len(lmap.source)
    /\ lmap.source[lmap.start + 1] = "\n"
    /\ lmap.loc.line = 2
    /\ lmap.loc.col = 1
    /\ lmap.loc.len = 2

(***************************************************************************)
(* Claims about the instructions of an elf.                                *)
(***************************************************************************)
\* the stack s without its element at position j, and with v put in front
\* of position j (positions counted from 1)
Without(s, j) == SubSeq(s, 1, j - 1) \o SubSeq(s, j + 1, Len(s))
WithAt(s, j, v) == SubSeq(s, 1, j - 1) \o <<v>> \o SubSeq(s, j, Len(s))

\* C31: on a stack of depth len, with k < len, Dup(k) appends a copy of the
\* element at index len-1-k, Erase(k) removes that element, Tuck(k) moves
\* the top to that index and Swap(k) exchanges the top with that element;
\* all other elements keep their value and order
C31_StackOps ==
    \A i \in StackSteps :
        LET k == log[i].code.a
            s == log[i].stack
            len == Len(s)
            j == len - k
            t == log[i].stack2
        IN  k < len =>
                /\ log[i].err = ""
                /\ log[i].code.op = "Dup" => t = Append(s, s[j])
                /\ log[i].code.op = "Erase" => t = Without(s, j)
                /\ log[i].code.op = "Tuck" =>
                       /\ t = WithAt(Without(s, len), j, s[len])
                       /\ k = 0 => t = s
                /\ log[i].code.op = "Swap" =>
                       /\ Len(t) = len
                       /\ t[len] = s[j] /\ t[j] = s[len]
                       /\ \A m \in 1..len : m \notin {j, len} => t[m] = s[m]

C31_Witness ==
    \E i \in StackSteps :
        /\ log[i].code.op = "Tuck" /\ log[i].code.a = 1
        /\ log[i].stack = <<4, 5, 6>>
        /\ log[i].stack2 = <<4, 6, 5>>

CondSteps == {i \in LogIds : log[i].turn.kind = "Elf" /\ log[i].code.op \in CondOps}

\* C32: IfPosPtr and IfNzPtr take the top off the stack whether they jump
\* or not, and jump iff it was > 0, or # 0; IfEmptyPtr jumps iff the stack
\* is empty and leaves the stack as it is; no jump means ip + 1
C32_ConditionalJumps ==
    \A i \in CondSteps :
        LET s == log[i].stack
            top == s[Len(s)]
            target == log[i].code.a
            jump(c) == log[i].ip2 = (IF c THEN target ELSE log[i].ip + 1)
        IN  /\ log[i].code.op = "IfPosPtr" /\ s # <<>> =>
                /\ log[i].err = ""
                /\ log[i].stack2 = SubSeq(s, 1, Len(s) - 1)
                /\ jump(top > 0)
            /\ log[i].code.op = "IfNzPtr" /\ s # <<>> =>
                /\ log[i].err = ""
                /\ log[i].stack2 = SubSeq(s, 1, Len(s) - 1)
                /\ jump(top # 0)
            /\ log[i].code.op = "IfEmptyPtr" =>
                /\ log[i].err = ""
                /\ log[i].stack2 = s
                /\ jump(s = <<>>)

C32_Witness ==
    \E i \in CondSteps :
        /\ log[i].code.op = "IfNzPtr"
        /\ log[i].stack = <<4, -1>>
        /\ log[i].stack2 = <<4>>
        /\ log[i].ip = 0 /\ log[i].ip2 = 2

(***************************************************************************)
(* Claims about agents and the schedule.                                   *)
(***************************************************************************)
SetupSteps == {i \in SantaLines : log[i].code.op = "SetupElf" /\ log[i].err = ""}

\* the id a SetupElf step stored in the slot of its line
NewId(i) == log[i].res2[log[i].ip + 1]

\* the first step of the agent that the SetupElf step i created
FirstStepOf(i) ==
    {j \in LogIds :
        /\ i < j /\ SameRuntime(i, j)
        /\ log[j].turn = TurnElf(NewId(i))
        /\ \A m \in (i + 1)..(j - 1) : log[m].turn # TurnElf(NewId(i))}

\* C33: a SetupElf step takes an id above every id taken before it in the
\* run, leaves the new agent among the active ones with its turn at the
\* back of the schedule and its id in the slot of the line; the agent
\* starts at ip 0 with the values of the init_stack lines as its stack
C33_SetupElf ==
    \A i \in SetupSteps :
        /\ \A j \in SetupSteps : (j < i /\ SameRuntime(j, i)) => NewId(j) < NewId(i)
        /\ NewId(i) \in log[i].known
        /\ Len(log[i].after) = Len(log[i].before) + 1
        /\ log[i].after[Len(log[i].after)] = TurnElf(NewId(i))
        /\ \A j \in FirstStepOf(i) :
            /\ log[j].ip = 0
            /\ \A k \in DOMAIN log[i].code.data : log[i].code.data[k] < Len(log[i].res)
            /\ log[j].stack =
                   [k \in DOMAIN log[i].code.data |-> log[i].res[log[i].code.data[k] + 1]]

(***************************************************************************)
(* Claims about the patch sites of translate_plan.                         *)
(***************************************************************************)
\* the expansions of a branching tile, the index of the conditional they
\* emitted and the state that was put off with that index as its patch site
BranchExpands ==
    {j \in LogIdx : IsExpand(j) /\ iterlog[j].emitted # <<>>
                    /\ iterlog[j].emitted[Len(iterlog[j].emitted)].op \in {"IfPosPtr", "IfNzPtr"}
                    /\ tile_at(plan, iterlog[j].elf.x, iterlog[j].elf.y).k
                           \in {"IsZero", "IsNeg", "IsPos"}}
SiteOf(j) == iterlog[j].at + Len(iterlog[j].emitted) - 1
DeferredOf(j) ==
    IF tile_at(plan, iterlog[j].elf.x, iterlog[j].elf.y).k = "IsPos"
    THEN step_right(iterlog[j].elf)
    ELSE step_left(iterlog[j].elf)

\* the program goes on with the code of state s at index a
LeadsTo(a, s) ==
    /\ s \in DOMAIN visited
    /\ \/ a = visited[s]
       \/ a < Len(emit) /\ emit[a + 1] = JmpPtr(visited[s])

\* C34: when a plan is compiled, the target of every conditional emitted
\* for a branching tile is the first instruction of the state that was put
\* off, or a JmpPtr to it
C34_PatchedTargets ==
    Compiled => \A j \in BranchExpands : LeadsTo(emit[SiteOf(j) + 1].a, DeferredOf(j))

\* the handler turns that yielded at a Receive
HandlerYields ==
    {i \in Epoch : /\ IsHandlerTurn(log[i].turn)
                   /\ log[i].code.op = "Receive"
                   /\ log[i].event = "Yield"}

\* C35: a handler turn that yielded at a Receive is, when it is popped
\* again, at that same Receive line, and the results of the lines of its
\* block in front of that line are as it left them
C35_HandlerResumes ==
    \A i \in HandlerYields :
        LET j == ResumeFrom(i + 1, 0)
        IN  j # 0 =>
                /\ log[j].turn = log[i].turn
                /\ log[j].ip = log[i].ip
                /\ \A l \in log[i].turn.ip..(log[i].ip - 1) :
                       log[j].res[l + 1] = log[i].res2[l + 1]

(***************************************************************************)
(* Claims about the ports of Receive and Send lines.                       *)
(***************************************************************************)
PortSteps == {i \in DOMAIN link.hist : link.hist[i].td.kind \in {"Receive", "Send"}}

\* the (agent line, port) a Receive or Send ToDo is to be emitted with: its
\* explicit port, else the port of the open Monitor line that starts last
ExpectedPort(h) ==
    IF h.td.a # None
    THEN <<ValueOf(h, h.td.a[1].id), h.td.a[1].port>>
    ELSE LET opens == {h.before.open[k] : k \in DOMAIN h.before.open}
             par == h.before.scode[Max(opens) + 1]
         IN  <<par.a, par.ap>>

\* the Receive and Send lines the ToDo of h pushed, in order
PortLines(h) == SelectSeq(NewLines(h), LAMBDA c : c.op \in {"Receive", "Send"})

\* the line that the k-th variable of the Receive of h stands on
OwnLine(h, k) == Len(h.before.scode) + k - 1

PortsAsExpected(h) ==
    /\ Len(PortLines(h)) =
           IF h.td.kind = "Receive" THEN Len(h.td.vars) ELSE Len(h.td.exprs)
    /\ h.td.kind = "Receive" => PortLines(h) = NewLines(h)
    /\ \A k \in DOMAIN PortLines(h) :
        /\ PortLines(h)[k].op = h.td.kind
        /\ <<PortLines(h)[k].a, PortLines(h)[k].ap>> = ExpectedPort(h)

\* the k-th variable of the Receive of h is defined here for the first time
FirstDefinition(h, k) ==
    /\ h.td.vars[k] \notin DOMAIN h.before.ident
    /\ \A j \in 1..(k - 1) : h.td.vars[j] # h.td.vars[k]

\* C36 as stated: a Receive or Send has the port of its innermost enclosing
\* Monitor, or its explicit port when it carries one; a Receive pushes one
\* line per variable, in order, and every variable is bound to its own line
C36_PortsAndBindings ==
    \A i \in PortSteps :
        LET h == link.hist[i]
        IN  /\ PortsAsExpected(h)
            /\ h.td.kind = "Receive" =>
                   \A k \in DOMAIN h.td.vars :
                       /\ h.td.vars[k] \in DOMAIN h.after.ident
                       /\ h.after.ident[h.td.vars[k]].v = OwnLine(h, k)

\* C36, amended: as above, but a variable is bound to its own line when the
\* Receive defines it for the first time, and a variable that was defined
\* before keeps the binding it had
C36_PortsAndFirstBindings ==
    \A i \in PortSteps :
        LET h == link.hist[i]
        IN  /\ PortsAsExpected(h)
            /\ h.td.kind = "Receive" =>
                   \A k \in DOMAIN h.td.vars :
                       /\ h.td.vars[k] \in DOMAIN h.after.ident
                       /\ FirstDefinition(h, k) =>
                              h.after.ident[h.td.vars[k]].v = OwnLine(h, k)
                       /\ h.td.vars[k] \in DOMAIN h.before.ident =>
                              h.after.ident[h.td.vars[k]] = h.before.ident[h.td.vars[k]]

\* a Receive of two variables without a port inside two nested Monitors with
\* different ports, and a Send with an explicit port inside a Monitor
C36_Witness ==
    \E i \in PortSteps :
        LET h == link.hist[i]
        IN  /\ h.td.kind = "Receive"
            /\ h.td.a = None
            /\ Len(h.td.vars) = 2
            /\ Len(h.before.open) = 2
            /\ h.before.scode[h.before.open[1] + 1].ap
                   # h.before.scode[h.before.open[2] + 1].ap
            /\ \A k \in 1..2 : FirstDefinition(h, k)

(***************************************************************************)
(* Claims about the schedule as a whole.                                   *)
(***************************************************************************)
\* the runtime is between two iterations of the loop of run, or outside run
BetweenIterations == pc = "sched" /\ run.phase \in {"idle", "loop"}

\* the places of the schedule that hold the turn of agent id
TurnsOf(id) ==
    {k \in DOMAIN run.schedule :
        run.schedule[k].kind = "Elf" /\ run.schedule[k].id = id}
QueuedIds ==
    {run.schedule[k].id : k \in {j \in DOMAIN run.schedule : run.schedule[j].kind = "Elf"}}

\* C37: between scheduler iterations every agent in Runtime::elves has
\* exactly one turn in the schedule and every agent turn in the schedule
\* names an agent in Runtime::elves
C37_TurnsMatchAgents ==
    BetweenIterations =>
        /\ QueuedIds = known_ids(rt)
        /\ \A id \in known_ids(rt) : Cardinality(TurnsOf(id)) = 1

\* one agent has finished and was removed while another one is still queued
C37_Witness ==
    /\ BetweenIterations
    /\ run.phase = "loop"
    /\ known_ids(rt) # {}
    /\ \E i \in Epoch : log[i].turn.kind = "Elf" /\ log[i].event = "Dequeue"
    /\ \E k \in DOMAIN run.schedule : run.schedule[k].kind = "Santa"

\* the first agent step of the current runtime, 0 if there is none yet
FirstElfStep ==
    LET es == {i \in Epoch : log[i].turn.kind = "Elf"}
    IN  IF es = {} THEN 0 ELSE CHOOSE i \in es : \A j \in es : i <= j

\* the director's initial turn, Runtime::new
MainTurn == TurnSanta(0, Len(unit.santa))

\* entry j is the end of the main pass: the turn ran off the end of the
\* director's program, or it yielded at a Receive
EndsMainPass(j) ==
    \/ log[j].event = "Dequeue" /\ log[j].ip = Len(unit.santa)
    \/ log[j].event = "Yield" /\ log[j].code.op = "Receive"

\* C38: when the first agent step of a runtime is taken, the steps before it
\* are the main pass of the director from line 0 on, without a gap, ended by
\* running off the program or by a yield at a Receive; the agents of its
\* SetupElf lines exist and the monitors of its Monitor lines are registered
C38_DirectorFirst ==
    LET f == FirstElfStep
    IN  f # 0 =>
            /\ f > EpochStart
            /\ log[EpochStart].ip = 0
            /\ EndsMainPass(f - 1)
            /\ \A j \in EpochStart..(f - 1) :
                /\ log[j].turn = MainTurn
                /\ j < f - 1 => log[j].event = "" /\ log[j + 1].ip = log[j].ip2
                /\ log[j].code.op = "SetupElf" =>
                       log[j].res2[log[j].ip + 1] \in log[f - 1].known
                /\ log[j].code.op = "Monitor" => MonitorRegisters(j)
                /\ log[j].code.op \in {"SetupElf", "Connect", "OpenRead", "OpenWrite"} =>
                       log[j].ip2 = log[j].ip + 1

\* the main pass sets up two agents, connects them, registers a monitor and
\* yields at its Receive before the first agent step
C38_Witness ==
    LET f == FirstElfStep
    IN  /\ f # 0
        /\ log[f - 1].event = "Yield"
        /\ \E j \in EpochStart..(f - 1) : log[j].code.op = "Connect"
        /\ \E j \in EpochStart..(f - 1) : log[j].code.op = "Monitor"
        /\ Cardinality({j \in EpochStart..(f - 1) : log[j].code.op = "SetupElf"}) = 2

(***************************************************************************)
(* Runtime::run(Step(n)) as one operation.  run_iteration is one pass of   *)
(* the loop of run with `steps` = count - 1 on entry; run_span makes the   *)
(* passes that count from lo + 1 to hi, as long as run has not returned.   *)
(* calllog has one entry per call: the command, and the runtime before and *)
(* after the call.                                                         *)
(***************************************************************************)
RunState(r, u) == [rt |-> r, run |-> u]

\* Runtime::run, one pass of `loop { ... }` from the `match result` on: x is
\* what the step of `next` returned; n is the argument of Step
run_requeue(s, un, n, count, next, x) ==
    IF x.rt.status = "panic"
    THEN RunState(panicked(s.rt), [s.run EXCEPT !.phase = "panic"])
    ELSE IF x.err # ""
    THEN LET z == reset(s.rt, s.run, un)
         IN  RunState(z.rt,
                      [z.run EXCEPT !.cmd = s.run.cmd, !.steps = s.run.steps,
                                    !.calls = s.run.calls, !.resets = s.run.resets,
                                    !.result = [kind |-> "Err", n |-> 0,
                                                error |-> Error_of(s.run, next, x.err,
                                                                   x.arg)]])
    ELSE LET r1 == IF x.event = "Dequeue" /\ next.kind = "Elf"
                   THEN elves_remove(x.rt, next.id + 1) ELSE x.rt
             u1 == [x.run EXCEPT !.schedule = requeue(@, next, x.event)]
             mon == IF x.event = "Write" THEN monitor_of(u1, next.id, x.port) ELSE {}
             u2 == IF mon = {} THEN u1
                   ELSE start_handler(u1, CHOOSE k \in mon : TRUE, un.santa)
             r2 == IF count % FlushEvery = 0 THEN flush_outs(r1) ELSE r1
             back == s.run.cmd.kind = "Step" /\ stepped(count, n)
         IN  RunState(r2,
                      [u2 EXCEPT !.steps = count,
                                 !.phase = IF back THEN "idle" ELSE "loop",
                                 !.result = IF back
                                            THEN [kind |-> "Stepped", n |-> count,
                                                  error |-> ErrorNone]
                                            ELSE @])

\* Runtime::run: one pass of `loop { ... }`, with `steps` = count - 1 on entry
run_iteration(s, un, n, count) ==
    IF s.run.schedule = <<>>
    THEN RunState(flush_outs(s.rt),
                  [s.run EXCEPT !.phase = "idle",
                                !.result = [kind |-> "Done", n |-> 0, error |-> ErrorNone]])
    ELSE CHOOSE out \in
             {run_requeue(s, un, n, count, Head(s.run.schedule), x) :
                 x \in {step_turn(s.rt, [s.run EXCEPT !.schedule = Tail(@)],
                                   Head(s.run.schedule), un)}} : TRUE

RECURSIVE run_span(_, _, _, _, _)
\* the passes that count from lo + 1 to hi: the first half, then the second
run_span(s, un, n, lo, hi) ==
    IF s.run.phase # "loop" \/ lo >= hi THEN s
    ELSE IF hi = lo + 1 THEN run_iteration(s, un, n, hi)
    ELSE CHOOSE out \in
             {run_span(half, un, n, (lo + hi) \div 2, hi) :
                 half \in {run_span(s, un, n, lo, (lo + hi) \div 2)}} : TRUE

\* Runtime::run(RunCommand::Step(n)): the loop returns in the pass that
\* counts n (the first pass for Step(0)) or earlier; run_span is given one
\* pass more than that
run_Step(r, u, un, n) ==
    CHOOSE out \in
        {run_span(s, un, n, 0, Max({n, 1}) + 1) :
            s \in {RunState(r, [u EXCEPT !.phase = "loop", !.cmd = Cmd("Step", n),
                                         !.steps = 0, !.calls = @ + 1,
                                         !.result = ResultNone])}} : TRUE

\* an elf that writes to an out-file for ever, once in 203 steps
Idling == [i \in 1..200 |-> Nop]
UnitFile ==
    MkUnit(<< <<Push(1), Out(1)>> \o Idling \o <<JmpPtr(0)>> >>,
           <<SetupElf(0, <<>>), OpenWrite(0, 1)>>)

\* an elf that writes to a monitored port for ever; the handler delivers
UnitServe ==
    MkUnit(<< <<Push(1), Out(0), JmpPtr(0)>> >>,
           <<SetupElf(0, <<>>), Monitor(0, 0, 3), Receive(0, 0), Deliver(2)>>)

\* a writer to an out-file and an elf that only computes, both for ever
UnitBoth ==
    MkUnit(<< <<Push(2), Out(1)>> \o Idling \o <<JmpPtr(0)>>,
              <<StackLen, Erase(0), JmpPtr(0)>> >>,
           <<SetupElf(0, <<>>), SetupElf(1, <<>>), OpenWrite(0, 1)>>)

StepUnits == {UnitFile, UnitServe, UnitBoth, UnitEcho, UnitAfter, UnitTwoRecv, UnitConnect}

\* the arguments of Step: a few steps, and almost a flush period
StepArgs == {1, 2, 3, FlushEvery - 3, FlushEvery - 1}

CallEntry(n, s0, s1) == [n |-> n, before |-> s0, after |-> s1]

\* the caller makes a call run(Step(n)) on a new runtime
ST_First ==
    /\ pc = "step"
    /\ run.phase = "idle"
    /\ calllog = <<>>
    /\ \E n \in StepArgs : \E s \in {run_Step(rt, run, unit, n)} :
        /\ rt' = s.rt
        /\ run' = s.run
        /\ calllog' = Append(calllog, CallEntry(n, RunState(rt, run), s))
    /\ UNCHANGED <<planVars, runVars, hist, ops, unit, log, linkVars>>

\* the caller makes a second call run(Step(n)) on the runtime the first left
ST_Second ==
    /\ pc = "step"
    /\ run.phase = "idle"
    /\ Len(calllog) = 1
    /\ \E n \in StepArgs : \E s \in {run_Step(rt, run, unit, n)} :
        /\ rt' = s.rt
        /\ run' = s.run
        /\ calllog' = Append(calllog, CallEntry(n, RunState(rt, run), s))
    /\ UNCHANGED <<planVars, runVars, hist, ops, unit, log, linkVars>>

InitStep ==
    /\ plan = PlanSimple
    /\ pc = "step"
    /\ emit = <<>>
    /\ visited = [s \in {} |-> 0]
    /\ bfs = <<>>
    /\ errors = <<>>
    /\ result = "-"
    /\ iterlog = <<>>
    /\ fromTile = <<>>
    /\ lin = RunIdle
    /\ walk = WalkIdle
    /\ sync = SyncIdle
    /\ steps = 0
    /\ rt = Runtime_new
    /\ hist = HistNew
    /\ ops = 0
    /\ unit \in StepUnits
    /\ \E sink \in {"Std", "Buffer"} : run = Sched_new(unit.santa, sink)
    /\ log = <<>>
    /\ calllog = <<>>
    /\ link = LinkNone
    /\ lmap = LineMapNone

NextStep == ST_First \/ ST_Second

SpecStep == InitStep /\ [][NextStep]_vars

(***************************************************************************)
(* Claims about Step.                                                      *)
(***************************************************************************)
\* what a caller can observe of a runtime: all of it but the bookkeeping of
\* the call of run (the command, its step counter, the value returned)
Observable(s) ==
    [rt |-> s.rt,
     run |-> [s.run EXCEPT !.cmd = CmdNone, !.steps = 0, !.calls = 0,
                           !.result = ResultNone]]

\* two calls Step(a) and Step(b) were made and both found their steps
TwoSteps ==
    /\ pc = "step"
    /\ Len(calllog) = 2
    /\ \A k \in 1..2 :
        /\ calllog[k].n >= 1
        /\ calllog[k].after.run.result.kind = "Stepped"

\* the runtime that one call Step(a + b) leaves, from where Step(a) began
WholeStep ==
    run_Step(calllog[1].before.rt, calllog[1].before.run, unit,
             calllog[1].n + calllog[2].n)

\* C39 as stated: Step(a) followed by Step(b) leaves the runtime in the state
\* in which a single Step(a + b) leaves it
C39_StepComposes ==
    TwoSteps => Observable(RunState(rt, run)) = Observable(WholeStep)

\* the same for a + b below the flush period of 1024 steps, where no call
\* reaches a flush
C39_StepComposesBelowFlush ==
    TwoSteps /\ calllog[1].n + calllog[2].n < FlushEvery =>
        Observable(RunState(rt, run)) = Observable(WholeStep)

\* Step(1) and then Step(1021) on the unit whose elf writes to an out-file:
\* the pipe of the file holds values and the single Step(1022) agrees
C39_Witness ==
    /\ TwoSteps
    /\ unit = UnitFile
    /\ calllog[1].n = 1
    /\ calllog[2].n = FlushEvery - 3
    /\ \E p \in DOMAIN rt.pipes : Len(rt.pipes[p].queue) > 2
    /\ Observable(RunState(rt, run)) = Observable(WholeStep)

(***************************************************************************)
(* Runtime::run(RunToEnd), pass by pass and without the history, so that a *)
(* run that never returns is a cycle of states.  Of `steps` the loop uses  *)
(* only the remainder by the flush period under RunToEnd, and run.steps    *)
(* holds that remainder here.                                              *)
(***************************************************************************)
\* a producer, a relay and a consumer in a row
UnitChain ==
    MkUnit(<< <<Push(3), Out(0), Hammock>>, <<In(0), Out(0), JmpPtr(0)>>,
              <<In(0), JmpPtr(0)>> >>,
           <<SetupElf(0, <<>>), SetupElf(1, <<>>), SetupElf(2, <<>>),
             Connect(0, 0, 1, 0), Connect(1, 0, 2, 0)>>)

\* two producers of one port, one of them done sooner than the other
UnitFanIn ==
    MkUnit(<< <<Push(1), Out(0), Hammock>>, <<Nop, Nop, Nop, Push(2), Out(0), Hammock>>,
              <<In(0), JmpPtr(0)>> >>,
           <<SetupElf(0, <<>>), SetupElf(1, <<>>), SetupElf(2, <<>>),
             Connect(0, 0, 2, 0), Connect(1, 0, 2, 0)>>)

\* two agents that wait for each other
UnitCycle ==
    MkUnit(<< <<In(0), Out(0), JmpPtr(0)>>, <<In(0), Out(0), JmpPtr(0)>> >>,
           <<SetupElf(0, <<>>), SetupElf(1, <<>>),
             Connect(0, 0, 1, 0), Connect(1, 0, 0, 0)>>)

\* an agent that computes for ever
UnitSpin == MkUnit(<< <<Nop, JmpPtr(0)>> >>, <<SetupElf(0, <<>>)>>)

LiveUnits ==
    {UnitChain, UnitFanIn, UnitCycle, UnitSpin, UnitEcho, UnitConnect, UnitYield, UnitPre}
        \cup EchoUnits \cup StackUnits \cup CondUnits

LV_Call ==
    /\ pc = "live"
    /\ run.phase = "idle"
    /\ run.calls = 0
    /\ run' = [run EXCEPT !.phase = "loop", !.cmd = Cmd("RunToEnd", 0), !.steps = 0,
                          !.calls = @ + 1, !.result = ResultNone]
    /\ UNCHANGED <<planVars, runVars, pipeVars, unit, log, calllog, linkVars>>

LV_Pass ==
    /\ pc = "live"
    /\ run.phase = "loop"
    /\ \E s \in {run_iteration(RunState(rt, run), unit, 0, (run.steps % FlushEvery) + 1)} :
        /\ rt' = s.rt
        /\ run' = s.run
    /\ UNCHANGED <<planVars, runVars, hist, ops, unit, log, calllog, linkVars>>

InitLive ==
    /\ plan = PlanSimple
    /\ pc = "live"
    /\ emit = <<>>
    /\ visited = [s \in {} |-> 0]
    /\ bfs = <<>>
    /\ errors = <<>>
    /\ result = "-"
    /\ iterlog = <<>>
    /\ fromTile = <<>>
    /\ lin = RunIdle
    /\ walk = WalkIdle
    /\ sync = SyncIdle
    /\ steps = 0
    /\ rt = Runtime_new
    /\ hist = HistNew
    /\ ops = 0
    /\ unit \in LiveUnits
    /\ \E sink \in {"Std", "Buffer"} : run = Sched_new(unit.santa, sink)
    /\ log = <<>>
    /\ calllog = <<>>
    /\ link = LinkNone
    /\ lmap = LineMapNone

NextLive == LV_Call \/ LV_Pass

\* the loop of run is sequential code: once called, it makes its next pass
SpecLive == InitLive /\ [][NextLive]_vars /\ WF_vars(LV_Pass)

(***************************************************************************)
(* Claims about the end of a run.                                          *)
(***************************************************************************)
\* the instruction agent id is at
InstrOf(id) == fetch(unit.rooms[run.cpu[id + 1].room + 1], run.cpu[id + 1].ip)

\* the agents in Runtime::elves that hold an output connected to the input
\* port q of agent id
ProducersOf(id, q) ==
    LET p == rt.elves[id + 1].inputs[q]
    IN  {e \in known_ids(rt) :
            \E port \in Ports :
                /\ rt.elves[e + 1].outputs[port] # 0
                /\ \E k \in DOMAIN rt.outs[rt.elves[e + 1].outputs[port]].to :
                       rt.outs[rt.elves[e + 1].outputs[port]].to[k] = p}

\* agent id is at an In(q) whose port has a pipe
WaitsAt(id, q) ==
    /\ id \in known_ids(rt)
    /\ InstrOf(id).op = "In"
    /\ InstrOf(id).a = q
    /\ rt.elves[id + 1].inputs[q] # 0

\* some agent is at an In(q) that an agent still in the active set feeds
Blocked == \E id \in known_ids(rt) : \E q \in Ports : WaitsAt(id, q) /\ ProducersOf(id, q) # {}

\* the pass steps an agent at an In(q) that no agent of the active set feeds
ReadsOrphan(id, q) ==
    /\ run.phase = "loop"
    /\ run.schedule # <<>>
    /\ Head(run.schedule) = TurnElf(id)
    /\ WaitsAt(id, q)
    /\ ProducersOf(id, q) = {}

\* the pass gave the agent a value that had been written, or it removed the
\* agent; the agent did not yield
ReadOrFinished(id) ==
    \/ /\ id \in known_ids(rt')
       /\ run'.cpu[id + 1].ip = run.cpu[id + 1].ip + 1
       /\ Len(run'.cpu[id + 1].stack) = Len(run.cpu[id + 1].stack) + 1
    \/ /\ id \notin known_ids(rt')
       /\ \A k \in DOMAIN run'.schedule : run'.schedule[k] # TurnElf(id)

ReturnedDone == run.phase = "idle" /\ run.result.kind = "Done"

\* run has returned the fault of an instruction
ReturnedErr == run.phase = "idle" /\ run.result.kind = "Err"

\* some agent of the active set is at an instruction other than In
Busy == \E id \in known_ids(rt) : InstrOf(id).op # "In"

\* an agent stepped at an In(q) that no active agent feeds reads a value
\* written before or, when there is none, finishes; it never yields there
OrphanNeverYields ==
    \A id \in known_ids(rt) : \A q \in Ports : ReadsOrphan(id, q) => ReadOrFinished(id)

\* C40 as stated: an agent at an In(q) that no active agent feeds reads what
\* was written and then finishes, and run(RunToEnd) returns Done unless from
\* some point on there is always an agent at an In(q) that an active agent
\* feeds
C40_ReturnsDone ==
    /\ [][OrphanNeverYields]_vars
    /\ (<>[]Blocked \/ [](run.phase = "loop" => <>ReturnedDone))

\* C40, amended: the same, but run(RunToEnd) returns Done or the fault of an
\* instruction, unless from some point on there is always an active agent
\* that is computing or is at an In(q) that an active agent feeds
C40_TerminationPropagates ==
    /\ [][OrphanNeverYields]_vars
    /\ \/ <>[](Blocked \/ Busy)
       \/ [](run.phase = "loop" => <>(ReturnedDone \/ ReturnedErr))

\* the consumer of UnitFanIn has read the values of both producers and has
\* finished after the second producer did; run has returned Done
C40_Witness ==
    /\ pc = "live"
    /\ unit = UnitFanIn
    /\ ReturnedDone
    /\ known_ids(rt) = {}
    /\ run.cpu[3].stack = <<1, 2>>

====
